---- MODULE Spec2Model ----
(***************************************************************************)
(* Model of the quiz backend: the request handlers of quiz_routes.py       *)
(* (start_quiz, submit_answer, complete_quiz_internal and the settlement   *)
(* task calculate_tournament_results), confirm_payment of                  *)
(* payment_routes.py, and the in-memory WebSocketManager of                *)
(* websocket_manager.py (connections, quiz sessions, quiz_timer).          *)
(*                                                                         *)
(* The handlers are asyncio coroutines: control can pass to another        *)
(* coroutine at every await and nowhere else.  Every handler is therefore  *)
(* a sequence of atomic steps, one per awaited storage operation, and a    *)
(* handler in flight keeps its local variables (the document it read) in   *)
(* its own record.  MongoDB executes each single operation atomically.     *)
(*                                                                         *)
(* Optional values (Python None / a value) are <<>> and <<v>>.             *)
(* Money is counted in hundredths of the currency unit, so that 60% and    *)
(* 50/30/20% of whole fees are whole numbers.                              *)
(***************************************************************************)
EXTENDS Integers, Sequences, FiniteSets, TLC

\* ---------------------------------------------------------------- bounds

\* Number of handler coroutines (HTTP requests) that can be in flight at once.
MaxProcs == 2
\* Answer options per question: a chosen option is 0..NumOptions-1.
NumOptions == 2
\* Lowest question_index a client sends is -MaxNeg (a JSON body may carry any integer).
MaxNeg == 2
\* Number of sessions the store holds when several participants are examined.
MaxSid == 2
\* Number of security violations reported on one session.
MaxViolations == 1
\* Number of websocket objects one user opens while earlier ones are still referenced.
MaxSockets == 2
\* Number of wallet top-ups confirmed in a run.
MaxTopups == 2
\* Number of questions of the category whose questions are edited.
BankSize == 2

Users == {"u1", "u2"}
Options == 0..(NumOptions - 1)

\* ---------------------------------------------------------------- helpers

None == <<>>
Some(v) == <<v>>
IsNone(o) == o = <<>>
Val(o) == o[1]

\* Python list indexing: the 1-based position list[i] denotes (negative i counts from the end).
PyIdx(len, i) == IF i >= 0 THEN i + 1 ELSE len + i + 1
\* list[i] raises IndexError unless the position exists.
PyInRange(len, i) == PyIdx(len, i) \in 1..len

\* A Python string is the sequence of its pieces: str(e) joins pieces, and two strings
\* are equal when their pieces are.
DigitChars == <<"0", "1", "2", "3", "4", "5", "6", "7", "8", "9">>

\* str(n) of a natural number: its decimal digits.
RECURSIVE Decimal(_)
Decimal(n) == IF n < 10 THEN <<DigitChars[n + 1]>>
              ELSE Decimal(n \div 10) \o <<DigitChars[(n % 10) + 1]>>

\* raise HTTPException(status_code=c, detail=d)
HTTPException(c, d) == [kind |-> "HTTPException", status_code |-> c, detail |-> <<d>>]
\* The IndexError of list[i] on a position the list does not have.
IndexError == [kind |-> "IndexError", args |-> <<"list index out of range">>]

\* str(e) of an exception that carries no text of its own: the empty string.
StrOfArgs(e) == IF e.kind = "HTTPException" THEN <<>> ELSE e.args

\* str(e): "<status_code>: <detail>" for an HTTPException, the message for a
\* Python error.
Str(e) ==
    IF e.kind = "HTTPException" THEN Decimal(e.status_code) \o <<": ">> \o e.detail
    ELSE e.args

\* except Exception as e: raise HTTPException(status_code=500, detail=str(e))
Wrap500(e) == [kind |-> "HTTPException", status_code |-> 500, detail |-> Str(e)]
\* A handler's return value: the 200 response with that body.
Ok(body) == [kind |-> "response", status_code |-> 200, body |-> body]
IsError(r) == r.status_code # 200

RECURSIVE SeqSum(_)
SeqSum(s) == IF s = <<>> THEN 0 ELSE Head(s) + SeqSum(Tail(s))

Range(s) == {s[i] : i \in DOMAIN s}

Min(S) == CHOOSE x \in S : \A y \in S : x <= y

\* The orders in which a for loop can visit the copy of a set.
Orders(S) ==
    {o \in [1..Cardinality(S) -> S] : \A i, j \in 1..Cardinality(S) : o[i] = o[j] => i = j}

\* ---------------------------------------------------------------- state

VARIABLES
    users,             \* db.users: user id -> [wallet_balance]
    payments,          \* db.payments: user id -> status of that user's payment intent
    tournament,        \* the db.tournaments document of the tournament, with the
                       \* db.questions documents of its category
    entries,           \* db.tournament_entries: sequence of entry documents, in insertion order
    sessions,          \* db.quiz_sessions: sequence of session documents; _id is the position
    wallet_transactions,\* db.wallet_transactions: sequence of prize transaction documents
    user_connections,  \* WebSocketManager.user_connections: user id -> Optional websocket
    tournament_connections,\* WebSocketManager.tournament_connections: room id -> set of websockets
    admin_connections, \* WebSocketManager.admin_connections: set of websockets
    closed,            \* the websockets on which close() has been called
    quiz_sessions,     \* WebSocketManager.quiz_sessions: session id -> Optional session dict
    timers,            \* the quiz_timer task of each session id: its position
    cleanups,          \* session ids with a pending cleanup_session task (a bag: id -> count)
    tasks,             \* the calculate_tournament_results_delayed tasks, in creation order
    procs,             \* the request handlers in flight: proc -> its locals and position
    response,          \* the response of the handler that returned last (where examined)
    hist               \* history: per session the status writes and settlement triggers,
                       \* per user the prize credits applied and the sum of the amounts
                       \* of the wallet updates applied, the top-ups begun, and of the
                       \* last endpoint teardown its websocket, whether that had been
                       \* closed by a later connect_user, and the registration it found

vars == <<users, payments, tournament, entries, sessions, wallet_transactions,
          user_connections, tournament_connections, admin_connections, closed,
          quiz_sessions, timers, cleanups, tasks, procs, response, hist>>

dbVars == <<users, payments, tournament, entries, sessions, wallet_transactions>>
\* The connections the manager holds, and the state of the socket objects.
mapVars == <<user_connections, tournament_connections, admin_connections>>
connVars == <<mapVars, closed>>
wsVars == <<connVars, quiz_sessions, timers, cleanups>>

\* The handler coroutines and the session ids of the configuration under examination.
Procs == DOMAIN procs
SessionIds == DOMAIN quiz_sessions
\* The session ids a request may name: those and one that no session ever has.
AnySid == 1..(Cardinality(SessionIds) + 1)

\* ---------------------------------------------------------------- registry

\* A send_to_user that drops the connection whatever send_text did.
send_and_drop(conns, u, ok) == [conns EXCEPT ![u] = None]

\* send_to_user: False without a connection; a failed send_text disconnects the user.
\* ok is the outcome of send_text on the user's channel.
send_to_user(conns, u, ok) ==
    IF IsNone(conns[u]) THEN conns
    ELSE IF ok THEN conns
    ELSE [conns EXCEPT ![u] = None]

\* A send_to_user that reports delivery whatever send_text did.
AlwaysDelivered(conns, u, ok) == TRUE

\* The return value of send_to_user: True when send_text went through.
Delivered(conns, u, ok) == ~IsNone(conns[u]) /\ ok

\* A disconnect_user that leaves the room sets alone.
KeepInRooms(rooms, w) == rooms

\* connections.discard(websocket) in every room: the rooms stay in the map.
DiscardFromRooms(rooms, w) == [r \in DOMAIN rooms |-> rooms[r] \ {w}]

\* disconnect_user: the user's websocket leaves the administrator set, every room
\* and the user map; nothing happens for a user without a connection.
disconnect_user(u) ==
    IF IsNone(user_connections[u]) THEN UNCHANGED mapVars
    ELSE /\ admin_connections' = admin_connections \ {Val(user_connections[u])}
         /\ tournament_connections' = DiscardFromRooms(tournament_connections, Val(user_connections[u]))
         /\ user_connections' = [user_connections EXCEPT ![u] = None]

\* send_to_user on the manager's maps: a failed send_text ends in disconnect_user.
SendTo(u, ok) ==
    IF IsNone(user_connections[u]) \/ ok THEN UNCHANGED mapVars
    ELSE disconnect_user(u)

\* send_to_user from a quiz handler or task: no websocket is closed.
SendToUser(u, ok) == SendTo(u, ok) /\ UNCHANGED closed

\* The websocket object accept() hands to connect_user: an object distinct from the
\* one the user map still holds for that user.
NewSocket(conns, u) == IF conns[u] = Some(<<u, 1>>) THEN <<u, 2>> ELSE <<u, 1>>

\* connect_user of a participant (role "user") who is in no room: the prior
\* connection is closed and replaced; then the connection_status message is sent on
\* the new one.
ConnectUser(u) ==
    /\ \E ok \in BOOLEAN :
          user_connections' =
              send_to_user([user_connections EXCEPT ![u] = Some(NewSocket(user_connections, u))], u, ok)
    /\ UNCHANGED <<dbVars, tournament_connections, admin_connections, closed,
                   quiz_sessions, timers, cleanups, tasks, procs, response, hist>>

\* disconnect_user: a no-op for a user without a connection.
DisconnectUser(u) ==
    /\ ~IsNone(user_connections[u])
    /\ disconnect_user(u)
    /\ UNCHANGED <<dbVars, closed, quiz_sessions, timers, cleanups, tasks, procs, response, hist>>

\* ---------------------------------------------------------------- payments

\* A find_one on the tournament alone: the entries of every user.
EntryOfAnyUser(es, u) == DOMAIN es

\* db.tournament_entries.find_one({"tournament_id": ..., "user_id": u})
EntryOf(es, u) == {i \in DOMAIN es : es[i].user_id = u}

\* The entry confirm_payment builds for user u, the n-th to join.
NewEntry(u, fee, n) ==
    [user_id |-> u,
     entry_fee |-> fee,
     joined_at |-> n,
     quiz_session_id |-> None,
     final_score |-> None,
     rank |-> None,
     prize_amount |-> None]

\* An insert_one into a collection without a unique index.
InsertEntryNoIndex(es, e) == Append(es, e)

\* db.tournament_entries.insert_one(entry) under the unique index on
\* (tournament_id, user_id): a second entry of the same user is rejected with
\* DuplicateKeyError and the collection is left as it was.
InsertEntry(es, e) == IF EntryOf(es, e.user_id) # {} THEN es ELSE Append(es, e)

\* confirm_payment: marks the payment completed and inserts the user's entry.
ConfirmPayment(u) ==
    /\ payments[u] # "none"
    /\ payments' = [payments EXCEPT ![u] = "completed"]
    /\ entries' = InsertEntry(entries, NewEntry(u, tournament.entry_fee, Len(entries) + 1))
    /\ UNCHANGED <<users, tournament, sessions, wallet_transactions, wsVars, tasks, procs, response, hist>>

\* ---------------------------------------------------------------- requests

Free(p) == procs[p].pc = "idle"

NewProc(op, u, sid, qi, ans) ==
    [pc |-> "idle", op |-> op, user |-> u, sid |-> sid, qi |-> qi, ans |-> ans,
     session |-> None, upd |-> None]

IdleProc == NewProc("none", "u1", 0, 0, 0)

\* The handlers of start_quiz that may still insert a session.
InStartQuiz == {p \in Procs : procs[p].pc = "sq_insert"}

\* The value of response in a configuration that examines no response.
Unobserved == [op |-> "unobserved", resp |-> Ok([message |-> "none"])]

\* The answer of report_security_violation.
ViolationReported == Ok([message |-> "Violation reported"])

\* A handler returns or raises r: the response goes out and the coroutine is gone.
Respond(p, op, r) ==
    /\ procs' = [procs EXCEPT ![p] = IdleProc]
    /\ response' = IF response = Unobserved THEN response ELSE [op |-> op, resp |-> r]

\* ---------------------------------------------------------------- start_quiz

\* The texts of the options of a question.
Texts == <<"a", "b", "c">>

\* A document of db.questions.
Question(id, options, correct_answer) ==
    [id |-> id, options |-> options, correct_answer |-> correct_answer]

\* A test that the category holds any question at all.
AnyQuestions(bank, n) == bank > 0

\* len(questions) < tournament["questions_count"] raises "Not enough questions".
EnoughQuestions(bank, n) == bank >= n

\* len(questions[:n]) of a list of bank questions.
SliceLen(bank, n) == IF n < bank THEN n ELSE bank

\* random.shuffle(questions); questions[:questions_count]: any questions_count
\* distinct positions of a bank of that size, in any order (all of a smaller bank).
SelectQuestions(bank, n) ==
    {q \in [1..SliceLen(bank, n) -> 1..bank] :
        \A i, j \in 1..SliceLen(bank, n) : q[i] = q[j] => i = j}

\* random.shuffle(options): the list with the original option perm[i] at position i.
Shuffled(options, perm) == [i \in 1..Len(options) |-> options[perm[i]]]

\* list.index(x): the 0-based position of the first element equal to x.
IndexOf(list, x) == Min({i \in DOMAIN list : list[i] = x}) - 1

\* A recomputation that keeps the original index.
SameIndex(options, q) == q.correct_answer

\* options.index(original_options[correct_answer])
NewCorrectIndex(options, q) ==
    IndexOf(options, q.options[PyIdx(Len(q.options), q.correct_answer)])

\* The entry of quiz_questions for question q under the shuffle perm of its options.
QuizQuestion(q, perm) ==
    [id |-> q.id, options |-> Shuffled(q.options, perm),
     correct_answer |-> NewCorrectIndex(Shuffled(q.options, perm), q)]

\* The shuffles of the options of the questions at the positions sel of the bank.
Shuffles(bank, sel) ==
    {ps \in [DOMAIN sel -> UNION {Orders(1..Len(bank[i].options)) : i \in DOMAIN bank}] :
        \A i \in DOMAIN sel : ps[i] \in Orders(1..Len(bank[sel[i]].options))}

\* The quiz_questions a session stores: questions_count questions of the bank (a
\* list of question documents), each with its options shuffled and the index of
\* its correct option recomputed.
QuizQuestions(bank, n) ==
    UNION {{[i \in DOMAIN sel |-> QuizQuestion(bank[sel[i]], ps[i])] : ps \in Shuffles(bank, sel)} :
              sel \in SelectQuestions(Len(bank), n)}

ExistingSessions(ss, u) ==
    {i \in DOMAIN ss : ss[i].user_id = u /\ ss[i].status \in {"started", "completed"}}

NewSession(u, qs) ==
    [user_id |-> u, questions |-> qs, answers |-> <<>>, current_question |-> 0,
     score |-> 0, status |-> "started", end_time |-> None, security_violations |-> 0]

\* POST /api/quiz/{tournament_id}/start, up to the insert: the tournament's time
\* window, the caller's entry, an existing session of the caller, the size of the
\* question bank, the shuffles.
start_quiz(p, u) ==
    LET ex == ExistingSessions(sessions, u) IN
    /\ Free(p)
    /\ IF tournament.window = "before"
         THEN Respond(p, "start_quiz", Wrap500(HTTPException(400, "Tournament not started yet")))
       ELSE IF tournament.window = "after"
         THEN Respond(p, "start_quiz", Wrap500(HTTPException(400, "Tournament has ended")))
       ELSE IF EntryOf(entries, u) = {}
         THEN Respond(p, "start_quiz", Wrap500(HTTPException(400, "You haven't joined this tournament")))
       ELSE IF ex # {} /\ sessions[Min(ex)].status = "completed"
         THEN Respond(p, "start_quiz", Wrap500(HTTPException(400, "Quiz already completed")))
       ELSE IF ex # {}
         THEN Respond(p, "start_quiz", Ok([message |-> "Quiz already started", session_id |-> Min(ex)]))
       ELSE IF ~EnoughQuestions(Len(tournament.bank), tournament.questions_count)
         THEN Respond(p, "start_quiz", Wrap500(HTTPException(400, "Not enough questions for this tournament")))
       ELSE /\ Len(sessions) + Cardinality(InStartQuiz) < Cardinality(SessionIds)
            /\ \E qs \in QuizQuestions(tournament.bank, tournament.questions_count) :
                 procs' = [procs EXCEPT ![p] =
                     [NewProc("start_quiz", u, 0, 0, 0) EXCEPT !.pc = "sq_insert",
                                                               !.session = Some(NewSession(u, qs))]]
            /\ UNCHANGED response
    /\ UNCHANGED <<dbVars, wsVars, tasks, hist>>

\* db.quiz_sessions.insert_one(session)
sq_insert(p) ==
    LET pr == procs[p] IN
    /\ pr.pc = "sq_insert"
    /\ sessions' = Append(sessions, Val(pr.session))
    /\ procs' = [procs EXCEPT ![p] = [pr EXCEPT !.pc = "sq_link", !.sid = Len(sessions) + 1,
                                                !.session = None]]
    /\ UNCHANGED <<users, payments, tournament, entries, wallet_transactions, wsVars, tasks,
                   response, hist>>

\* db.tournament_entries.update_one({"_id": entry["_id"]}, {"$set": {"quiz_session_id": ...}})
sq_link(p) ==
    LET pr == procs[p]
        e == Min(EntryOf(entries, pr.user))
    IN
    /\ pr.pc = "sq_link"
    /\ entries' = [entries EXCEPT ![e].quiz_session_id = Some(pr.sid)]
    /\ procs' = [procs EXCEPT ![p] = [pr EXCEPT !.pc = "sq_ws"]]
    /\ UNCHANGED <<users, payments, tournament, sessions, wallet_transactions, wsVars, tasks,
                   response, hist>>

\* The dict start_quiz_session stores for a session.
WsSession(u, n, t) ==
    [user_id |-> u, current_question |-> 0, total_questions |-> n,
     time_remaining |-> t, status |-> "active"]

\* websocket_manager.start_quiz_session, then start_quiz returns: without a connection
\* of the user neither the dict nor the quiz_timer task is created.
sq_ws(p) ==
    LET pr == procs[p]
        u == pr.user
    IN
    /\ pr.pc = "sq_ws"
    /\ IF IsNone(user_connections[u])
         THEN UNCHANGED wsVars
         ELSE /\ quiz_sessions' = [quiz_sessions EXCEPT ![pr.sid] =
                     [in_map |-> TRUE,
                      dict |-> Some(WsSession(u, tournament.questions_count, tournament.total_time))]]
              /\ \E ok \in BOOLEAN : SendToUser(u, ok)
              /\ timers' = [timers EXCEPT ![pr.sid] = "loop"]
              /\ UNCHANGED cleanups
    /\ Respond(p, "start_quiz", Ok([message |-> "Quiz started", session_id |-> pr.sid]))
    /\ UNCHANGED <<dbVars, tasks, hist>>

\* ---------------------------------------------------------------- submit_answer

\* db.quiz_sessions.find_one({"_id": sid, "user_id": u})
FindSession(ss, sid, u) ==
    IF sid \in DOMAIN ss /\ ss[sid].user_id = u THEN Some(ss[sid]) ELSE None

\* while len(answers) <= question_index: answers.append(None)
RECURSIVE Pad(_, _)
Pad(answers, qi) == IF Len(answers) <= qi THEN Pad(Append(answers, None), qi) ELSE answers

\* The question as the bank holds it now (the stored one when the bank has none of
\* that id).
BankQuestion(session, qi) ==
    LET stored == session.questions[PyIdx(Len(session.questions), qi)]
        now == {q \in Range(tournament.bank) : q.id = stored.id}
    IN IF now = {} THEN stored ELSE CHOOSE q \in now : TRUE

\* question = session["questions"][question_index]: the question stored in the
\* session document.
SessionQuestion(session, qi) == session.questions[PyIdx(Len(session.questions), qi)]

\* The $set submit_answer computes from the session it read: the slot recorded, the
\* score raised when the answer is the question's correct_answer, the pointer advanced.
AnswerUpdate(session, qi, ans) ==
    LET answers == Pad(session.answers, qi)
        question == SessionQuestion(session, qi)
        is_correct == ans = question.correct_answer
    IN [answers |-> [answers EXCEPT ![PyIdx(Len(answers), qi)] = Some([answer |-> ans])],
        score |-> IF is_correct THEN session.score + 1 ELSE session.score,
        current_question |-> qi + 1,
        is_correct |-> is_correct,
        correct_answer |-> question.correct_answer]

\* The exception submit_answer raises on the session it read (None: it goes on to
\* record the answer), in the order of its checks.
AnswerError(found, qi) ==
    IF IsNone(found) THEN Some(HTTPException(404, "Quiz session not found"))
    ELSE LET session == Val(found)
             answers == Pad(session.answers, qi)
         IN IF session.status # "started"
              THEN Some(HTTPException(400, "Quiz session is not active"))
            ELSE IF qi >= Len(session.questions)
              THEN Some(HTTPException(400, "Invalid question index"))
            ELSE IF ~PyInRange(Len(answers), qi)
              THEN Some(IndexError)
            ELSE IF ~IsNone(answers[PyIdx(Len(answers), qi)])
              THEN Some(HTTPException(400, "Question already answered"))
            ELSE IF ~PyInRange(Len(session.questions), qi)
              THEN Some(IndexError)
            ELSE None

\* response_data of a recorded answer
ResponseData(upd, qi) ==
    [is_correct |-> upd.is_correct, correct_answer |-> upd.correct_answer,
     current_score |-> upd.score, question_index |-> qi]

\* POST /api/quiz/{session_id}/answer with body {question_index, answer}, from
\* find_one to the call of update_one.
submit_answer(p, u, sid, qi, ans) ==
    LET found == FindSession(sessions, sid, u)
        err == AnswerError(found, qi)
    IN
    /\ Free(p)
    /\ IF ~IsNone(err)
         THEN Respond(p, "submit_answer", Wrap500(Val(err)))
         ELSE /\ procs' = [procs EXCEPT ![p] =
                     [NewProc("submit_answer", u, sid, qi, ans) EXCEPT
                          !.pc = "sa_update", !.session = found,
                          !.upd = Some(AnswerUpdate(Val(found), qi, ans))]]
              /\ UNCHANGED response
    /\ UNCHANGED <<dbVars, wsVars, tasks, hist>>

\* A $set of the answer together with the status of the session as it was read.
ApplyAnswerAndStatus(doc, upd) ==
    [doc EXCEPT !.answers = upd.answers, !.score = upd.score,
                !.current_question = upd.current_question, !.status = "started"]

\* db.quiz_sessions.update_one({"_id": sid}, {"$set": {answers, score, current_question}})
ApplyAnswer(doc, upd) ==
    [doc EXCEPT !.answers = upd.answers, !.score = upd.score,
                !.current_question = upd.current_question]

sa_update(p) ==
    LET pr == procs[p] IN
    /\ pr.pc = "sa_update"
    /\ sessions' = [sessions EXCEPT ![pr.sid] = ApplyAnswer(@, Val(pr.upd))]
    /\ procs' = [procs EXCEPT ![p] = [pr EXCEPT !.pc = "sa_ws"]]
    /\ UNCHANGED <<users, payments, tournament, entries, wallet_transactions, wsVars, tasks,
                   response, hist>>

\* websocket_manager.submit_quiz_answer: on an active dict of the map it advances the
\* dict's current_question and sends answer_submitted.
submit_quiz_answer(qs, sid, qi) ==
    IF qs[sid].in_map /\ Val(qs[sid].dict).status = "active"
      THEN [qs EXCEPT ![sid].dict = Some([Val(@) EXCEPT !.current_question = qi + 1])]
      ELSE qs

\* A test that lets the last question complete the quiz only when every earlier
\* position of the session read has an answer.
IsLastAndAllAnswered(session, qi) ==
    /\ qi >= Len(session.questions) - 1
    /\ \A i \in 1..(Len(session.questions) - 1) :
          i \in DOMAIN session.answers /\ ~IsNone(session.answers[i])

\* The last question completes the quiz: question_index >= len(questions) - 1.
IsLastQuestion(session, qi) == qi >= Len(session.questions) - 1

\* submit_answer after the update: the websocket notification, then either
\* complete_quiz_internal or the response with the next question.
sa_ws(p) ==
    LET pr == procs[p]
        sent == quiz_sessions[pr.sid].in_map /\ Val(quiz_sessions[pr.sid].dict).status = "active"
    IN
    /\ pr.pc = "sa_ws"
    /\ quiz_sessions' = submit_quiz_answer(quiz_sessions, pr.sid, pr.qi)
    /\ \E ok \in BOOLEAN : IF sent THEN SendToUser(pr.user, ok) ELSE UNCHANGED connVars
    /\ IF IsLastQuestion(Val(pr.session), pr.qi)
         THEN /\ procs' = [procs EXCEPT ![p] = [pr EXCEPT !.pc = "cq_find", !.session = None]]
              /\ UNCHANGED response
         ELSE Respond(p, "submit_answer", Ok(ResponseData(Val(pr.upd), pr.qi)))
    /\ UNCHANGED <<dbVars, timers, cleanups, tasks, hist>>

\* ---------------------------------------------------------------- complete_quiz_internal

\* What the handler returns once complete_quiz_internal returned body: submit_answer
\* returns its response_data, complete_quiz the body.
Returned(pr, body) ==
    IF pr.op = "submit_answer" THEN Ok(ResponseData(Val(pr.upd), pr.qi)) ELSE Ok(body)

\* What the handler raises once complete_quiz_internal raised e: complete_quiz_internal
\* turns it into a 500, and submit_answer's own except clause does so again.
Raised(pr, e) ==
    IF pr.op = "submit_answer" THEN Wrap500(Wrap500(e)) ELSE Wrap500(e)

\* complete_quiz_internal from find_one to the first update: it returns at once on a
\* session it read as completed.
CompleteFind(p, pr) ==
    LET found == FindSession(sessions, pr.sid, pr.user) IN
    /\ IF IsNone(found)
         THEN Respond(p, pr.op, Raised(pr, HTTPException(404, "Quiz session not found")))
       ELSE IF Val(found).status = "completed"
         THEN Respond(p, pr.op, Returned(pr, [message |-> "Quiz already completed"]))
       ELSE /\ procs' = [procs EXCEPT ![p] = [pr EXCEPT !.pc = "cq_session", !.session = found]]
            /\ UNCHANGED response
    /\ UNCHANGED <<dbVars, wsVars, tasks, hist>>

\* POST /api/quiz/{session_id}/complete: complete_quiz_internal and nothing else.
complete_quiz(p, u, sid) ==
    /\ Free(p)
    /\ CompleteFind(p, NewProc("complete_quiz", u, sid, 0, 0))

\* submit_answer of the last question calls complete_quiz_internal.
cq_find(p) ==
    /\ procs[p].pc = "cq_find"
    /\ CompleteFind(p, procs[p])

\* The number of status writes so far: the clock that stamps end_time.
Stamps == SeqSum([i \in 1..Cardinality(SessionIds) |-> hist.status_writes[i]])

\* db.quiz_sessions.update_one({"_id": sid}, {"$set": {"status": "completed", end_time, time_taken}})
MarkCompleted(doc, now) == [doc EXCEPT !.status = "completed", !.end_time = Some(now)]

cq_session(p) ==
    LET pr == procs[p] IN
    /\ pr.pc = "cq_session"
    /\ sessions' = [sessions EXCEPT ![pr.sid] = MarkCompleted(@, Stamps + 1)]
    /\ hist' = [hist EXCEPT !.status_writes[pr.sid] = @ + 1,
                            !.transitions[pr.sid] = IF sessions[pr.sid].status = "started" THEN @ + 1 ELSE @]
    /\ procs' = [procs EXCEPT ![p] = [pr EXCEPT !.pc = "cq_entry"]]
    /\ UNCHANGED <<users, payments, tournament, entries, wallet_transactions, wsVars, tasks,
                   response>>

\* db.tournament_entries.update_one({"quiz_session_id": sid}, {"$set": {"final_score": score}}):
\* the first entry linked to the session gets the score of the session as it was read.
SetFinalScore(es, sid, score) ==
    LET linked == {i \in DOMAIN es : es[i].quiz_session_id = Some(sid)}
    IN IF linked = {} THEN es ELSE [es EXCEPT ![Min(linked)].final_score = Some(score)]

cq_entry(p) ==
    LET pr == procs[p] IN
    /\ pr.pc = "cq_entry"
    /\ entries' = SetFinalScore(entries, pr.sid, Val(pr.session).score)
    /\ procs' = [procs EXCEPT ![p] = [pr EXCEPT !.pc = "cq_ws"]]
    /\ UNCHANGED <<users, payments, tournament, sessions, wallet_transactions, wsVars, tasks,
                   response, hist>>

\* websocket_manager.end_quiz_session: a dict of the map becomes completed.
end_quiz_session(qs, sid) ==
    IF qs[sid].in_map THEN [qs EXCEPT ![sid].dict = Some([Val(@) EXCEPT !.status = "completed"])]
    ELSE qs

\* The results complete_quiz_internal computes from the session it read.
Results(session) ==
    [final_score |-> session.score, total_questions |-> Len(session.questions)]

\* A task created by asyncio.create_task(calculate_tournament_results_delayed(...)).
\* (late: whether the task found the tournament already completed when it woke.)
NewTask == [pc |-> "sleep", order |-> <<>>, i |-> 0, late |-> FALSE]

\* asyncio.create_task(calculate_tournament_results_delayed(tournament_id)): one new
\* task for every call.
ScheduleSettlement(ts) == Append(ts, NewTask)

\* complete_quiz_internal after the updates: end_quiz_session (the quiz_completed
\* message and the cleanup task), then the settlement task, then the return.
cq_ws(p) ==
    LET pr == procs[p] IN
    /\ pr.pc = "cq_ws"
    /\ quiz_sessions' = end_quiz_session(quiz_sessions, pr.sid)
    /\ \E ok \in BOOLEAN : SendToUser(pr.user, ok)
    /\ cleanups' = [cleanups EXCEPT ![pr.sid] = @ + 1]
    /\ tasks' = ScheduleSettlement(tasks)
    /\ hist' = [hist EXCEPT !.scheduled[pr.sid] = @ + 1]
    /\ Respond(p, pr.op, Returned(pr, [message |-> "Quiz completed successfully",
                                     results |-> Results(Val(pr.session))]))
    /\ UNCHANGED <<dbVars, timers>>

\* ---------------------------------------------------------------- quiz_timer

\* quiz_timer at its while condition: it sleeps a second while time remains and the
\* dict is active; otherwise it leaves the loop, and an active dict becomes completed
\* and quiz_ended (reason time_up) is sent.
TimerLoop(sid) ==
    LET d == Val(quiz_sessions[sid].dict) IN
    /\ timers[sid] = "loop"
    /\ IF d.time_remaining > 0 /\ d.status = "active"
         THEN /\ timers' = [timers EXCEPT ![sid] = "sleeping"]
              /\ UNCHANGED <<quiz_sessions, connVars, hist>>
         ELSE /\ timers' = [timers EXCEPT ![sid] = "done"]
              /\ IF d.status = "active"
                   THEN /\ quiz_sessions' = [quiz_sessions EXCEPT ![sid].dict = Some([d EXCEPT !.status = "completed"])]
                        /\ \E ok \in BOOLEAN : SendToUser(d.user_id, ok)
                        /\ hist' = [hist EXCEPT !.time_up = @ \cup {sid}]
                   ELSE UNCHANGED <<quiz_sessions, connVars, hist>>
    /\ UNCHANGED <<dbVars, cleanups, tasks, procs, response>>

\* A second that leaves the remaining time as it is.
NoTick(t) == t

\* session["time_remaining"] -= 1
Tick(t) == t - 1

\* quiz_timer waking from asyncio.sleep(1): a second less, and a time_update every
\* fifth second.
TimerWake(sid) ==
    LET d == Val(quiz_sessions[sid].dict)
        t == Tick(d.time_remaining)
    IN
    /\ timers[sid] = "sleeping"
    /\ quiz_sessions' = [quiz_sessions EXCEPT ![sid].dict = Some([d EXCEPT !.time_remaining = t])]
    /\ \E ok \in BOOLEAN : IF t % 5 = 0 THEN SendToUser(d.user_id, ok) ELSE UNCHANGED connVars
    /\ timers' = [timers EXCEPT ![sid] = "loop"]
    /\ UNCHANGED <<dbVars, cleanups, tasks, procs, response, hist>>

\* cleanup_session after its five minutes: the dict leaves the map (the timer keeps its
\* own reference to it).
CleanupSession(sid) ==
    /\ cleanups[sid] > 0
    /\ cleanups' = [cleanups EXCEPT ![sid] = @ - 1]
    /\ quiz_sessions' = [quiz_sessions EXCEPT ![sid].in_map = FALSE]
    /\ UNCHANGED <<dbVars, connVars, timers, tasks, procs, response, hist>>

\* ---------------------------------------------------------------- registry operations

\* The tournament rooms clients ask to join, and the websocket objects: the k-th
\* socket opened for user u is <<u, k>>.
Rooms == {"t1", "t2"}
Sockets == Users \X (1..MaxSockets)

\* user.get("role", "user") of the users document: u2 is an administrator.
RoleOf(u) == IF u = "u2" THEN "admin" ELSE "user"

\* What a registry operation hands to its caller: a return value or a raised error.
ReturnsNone == [kind |-> "None"]
ReturnsBool(b) == [kind |-> "bool", value |-> b]
ReturnsCount(n) == [kind |-> "int", value |-> n]
KeyError(key) == [kind |-> "KeyError", args |-> <<key>>]

\* The websockets something still refers to: the user map, a room, the administrator
\* set, a broadcast's snapshot, a websocket_endpoint handler; and those that were closed.
Registered == {Val(user_connections[u]) : u \in {v \in Users : ~IsNone(user_connections[v])}}
Members == UNION {tournament_connections[r] : r \in DOMAIN tournament_connections}
Snapshots == UNION {Range(procs[p].snapshot) : p \in {q \in Procs : procs[q].pc \in {"bt_send", "ba_send"}}}
Held == {procs[p].ws : p \in {q \in Procs : procs[q].pc = "ws_receive"}}
Referenced == Registered \cup Members \cup admin_connections \cup Snapshots \cup Held
Known == Referenced \cup closed

\* A closed websocket is remembered for as long as something refers to it.
Collect(cl) == closed' = cl \cap Referenced'

\* The websocket of a new connection of user u: an object distinct from every known one.
Accepted(u) == {w \in Sockets : w[1] = u /\ w \notin Known}
AcceptedSocket(u) == <<u, Min({w[2] : w \in Accepted(u)})>>

\* A connect_user that leaves the prior channel open.
KeepPrior(cl, prior) == cl

\* await self.user_connections[user_id].close() for a user already in the map.
ClosePrior(cl, prior) == IF IsNone(prior) THEN cl ELSE cl \cup {Val(prior)}

\* send_text on a closed websocket raises; on an open one it succeeds or raises.
SendOutcomes(w) == IF w \in closed THEN {FALSE} ELSE BOOLEAN

\* connect_user: closes the prior channel of the user, stores the new websocket
\* (also in the administrator set for role admin), and sends connection_status on
\* it; a failed send ends in disconnect_user.  Returns None.
StoreAndGreet(u) ==
    LET w == AcceptedSocket(u)
        admins == IF RoleOf(u) = "admin" THEN admin_connections \cup {w} ELSE admin_connections
    IN
    /\ Accepted(u) # {}
    /\ \E ok \in BOOLEAN :
          IF ok THEN /\ user_connections' = [user_connections EXCEPT ![u] = Some(w)]
                     /\ admin_connections' = admins
                     /\ UNCHANGED tournament_connections
          ELSE /\ user_connections' = [user_connections EXCEPT ![u] = None]
               /\ admin_connections' = admins \ {w}
               /\ tournament_connections' = DiscardFromRooms(tournament_connections, w)

connect_user(u) ==
    /\ StoreAndGreet(u)
    /\ response' = [op |-> "connect_user", resp |-> ReturnsNone]
    /\ UNCHANGED <<dbVars, quiz_sessions, timers, cleanups, tasks, procs, hist>>
    /\ Collect(ClosePrior(closed, user_connections[u]))

\* disconnect_user called for user u, connected or not.  Returns None.
Disconnect(u) ==
    /\ disconnect_user(u)
    /\ response' = [op |-> "disconnect_user", resp |-> ReturnsNone]
    /\ UNCHANGED <<dbVars, quiz_sessions, timers, cleanups, tasks, procs, hist>>
    /\ Collect(closed)

\* self.tournament_connections[tournament_id].add(websocket), the room created when
\* it is not in the map.
JoinRoom(rooms, r, w) ==
    [x \in DOMAIN rooms \cup {r} |->
        IF x = r THEN (IF r \in DOMAIN rooms THEN rooms[r] ELSE {}) \cup {w} ELSE rooms[x]]

\* join_tournament_room: False without a connection; otherwise the websocket joins
\* the room, tournament_joined is sent (a failed send ends in disconnect_user), and
\* the call returns True.
join_tournament_room(u, r) ==
    LET c == user_connections[u]
        joined == JoinRoom(tournament_connections, r, Val(c))
    IN
    /\ IF IsNone(c)
         THEN /\ UNCHANGED mapVars
              /\ response' = [op |-> "join_tournament_room", resp |-> ReturnsBool(FALSE)]
         ELSE /\ \E ok \in BOOLEAN :
                    IF ok THEN /\ tournament_connections' = joined
                               /\ UNCHANGED <<user_connections, admin_connections>>
                    ELSE /\ tournament_connections' = DiscardFromRooms(joined, Val(c))
                         /\ admin_connections' = admin_connections \ {Val(c)}
                         /\ user_connections' = [user_connections EXCEPT ![u] = None]
              /\ response' = [op |-> "join_tournament_room", resp |-> ReturnsBool(TRUE)]
    /\ UNCHANGED <<dbVars, quiz_sessions, timers, cleanups, tasks, procs, hist>>
    /\ Collect(closed)

\* The room map after leave_tournament_room's discard: a room left empty is deleted.
LeaveRoom(rooms, r, w) ==
    IF r \notin DOMAIN rooms THEN rooms
    ELSE IF rooms[r] \ {w} = {} THEN [x \in DOMAIN rooms \ {r} |-> rooms[x]]
    ELSE [rooms EXCEPT ![r] = @ \ {w}]

\* leave_tournament_room: nothing without a connection.  Returns None.
leave_tournament_room(u, r) ==
    /\ IF IsNone(user_connections[u])
         THEN UNCHANGED tournament_connections
         ELSE tournament_connections' = LeaveRoom(tournament_connections, r, Val(user_connections[u]))
    /\ response' = [op |-> "leave_tournament_room", resp |-> ReturnsNone]
    /\ UNCHANGED <<dbVars, user_connections, admin_connections, quiz_sessions, timers,
                   cleanups, tasks, procs, hist>>
    /\ Collect(closed)

\* send_to_user called for user u (the pong of a ping): returns whether send_text
\* went through.
Ping(u) ==
    /\ \E ok \in BOOLEAN :
          /\ SendTo(u, ok)
          /\ response' = [op |-> "send_to_user", resp |-> ReturnsBool(Delivered(user_connections, u, ok))]
    /\ UNCHANGED <<dbVars, quiz_sessions, timers, cleanups, tasks, procs, hist>>
    /\ Collect(closed)

\* A websocket_endpoint handler of user u waiting in receive_text on its websocket.
NewEndpoint(u, w) == [pc |-> "ws_receive", op |-> "websocket_endpoint", user |-> u, ws |-> w]

\* finally: await websocket_manager.disconnect_user(user_id), by the handler of
\* websocket w.
Teardown(u, w) == disconnect_user(u)

\* websocket_endpoint up to its first receive_text: the user is found, connect_user
\* runs on the accepted websocket, and the handler waits for a message.
websocket_endpoint(p, u) ==
    /\ Free(p)
    /\ StoreAndGreet(u)
    /\ procs' = [procs EXCEPT ![p] = NewEndpoint(u, AcceptedSocket(u))]
    /\ response' = [op |-> "connect_user", resp |-> ReturnsNone]
    /\ UNCHANGED <<dbVars, quiz_sessions, timers, cleanups, tasks, hist>>
    /\ Collect(ClosePrior(closed, user_connections[u]))

\* The handler receives {"type": "ping"} and answers through send_to_user(user_id).
ws_ping(p) ==
    /\ procs[p].pc = "ws_receive"
    /\ procs[p].ws \notin closed
    /\ Ping(procs[p].user)

\* receive_text raises WebSocketDisconnect (the client went away, or the channel
\* was closed by a later connect_user): the loop breaks and the finally clause runs.
ws_teardown(p) ==
    LET pr == procs[p] IN
    /\ pr.pc = "ws_receive"
    /\ Teardown(pr.user, pr.ws)
    /\ procs' = [procs EXCEPT ![p] = IdleProc]
    /\ response' = [op |-> "disconnect_user", resp |-> ReturnsNone]
    /\ hist' = [hist EXCEPT !.teardown = Some([ws |-> pr.ws, superseded |-> pr.ws \in closed,
                                                found |-> user_connections[pr.user]])]
    /\ UNCHANGED <<dbVars, quiz_sessions, timers, cleanups, tasks>>
    /\ Collect(closed)

\* A broadcast coroutine suspended in send_text on snapshot[i].
NewBroadcast(pc, op, r, snap) ==
    [pc |-> pc, op |-> op, room |-> r, snapshot |-> snap, i |-> 1, sent_count |-> 0, broken |-> {}]

\* broadcast_to_tournament up to its first send_text: 0 for a room not in the map;
\* otherwise the loop over a copy of the room's set begins.
broadcast_to_tournament(p, r) ==
    /\ Free(p)
    /\ IF r \notin DOMAIN tournament_connections \/ tournament_connections[r] = {}
         THEN Respond(p, "broadcast_to_tournament", ReturnsCount(0))
         ELSE /\ \E snap \in Orders(tournament_connections[r]) :
                    procs' = [procs EXCEPT ![p] =
                                 NewBroadcast("bt_send", "broadcast_to_tournament", r, snap)]
              /\ UNCHANGED response
    /\ UNCHANGED <<dbVars, wsVars, tasks, hist>>

\* A send_text of broadcast_to_tournament completes: the next one begins, or after
\* the last one the broken websockets are discarded from
\* self.tournament_connections[tournament_id] and the count is returned.
bt_send(p) ==
    LET pr == procs[p]
        w == pr.snapshot[pr.i]
    IN
    /\ pr.pc = "bt_send"
    /\ \E ok \in SendOutcomes(w) :
          LET sent == IF ok THEN pr.sent_count + 1 ELSE pr.sent_count
              broken == IF ok THEN pr.broken ELSE pr.broken \cup {w}
          IN
          IF pr.i < Len(pr.snapshot)
            THEN /\ procs' = [procs EXCEPT ![p] = [pr EXCEPT !.i = @ + 1, !.sent_count = sent,
                                                             !.broken = broken]]
                 /\ UNCHANGED <<tournament_connections, response>>
          ELSE IF broken = {}
            THEN /\ Respond(p, pr.op, ReturnsCount(sent))
                 /\ UNCHANGED tournament_connections
          ELSE IF pr.room \notin DOMAIN tournament_connections
            THEN /\ Respond(p, pr.op, KeyError(pr.room))
                 /\ UNCHANGED tournament_connections
          ELSE /\ tournament_connections' = [tournament_connections EXCEPT ![pr.room] = @ \ broken]
               /\ Respond(p, pr.op, ReturnsCount(sent))
    /\ UNCHANGED <<dbVars, user_connections, admin_connections, quiz_sessions, timers,
                   cleanups, tasks, hist>>
    /\ Collect(closed)

\* broadcast_to_admins up to its first send_text: the loop over a copy of the
\* administrator set begins; 0 when the set is empty.
broadcast_to_admins(p) ==
    /\ Free(p)
    /\ IF admin_connections = {}
         THEN Respond(p, "broadcast_to_admins", ReturnsCount(0))
         ELSE /\ \E snap \in Orders(admin_connections) :
                    procs' = [procs EXCEPT ![p] =
                                 NewBroadcast("ba_send", "broadcast_to_admins", "admins", snap)]
              /\ UNCHANGED response
    /\ UNCHANGED <<dbVars, wsVars, tasks, hist>>

\* A send_text of broadcast_to_admins completes: the next one begins, or after the
\* last one the broken websockets are discarded from the administrator set and the
\* count is returned: to the caller of the registry, or to report_security_violation,
\* which discards it and answers.
ba_send(p) ==
    LET pr == procs[p]
        w == pr.snapshot[pr.i]
    IN
    /\ pr.pc = "ba_send"
    /\ \E ok \in SendOutcomes(w) :
          LET sent == IF ok THEN pr.sent_count + 1 ELSE pr.sent_count
              broken == IF ok THEN pr.broken ELSE pr.broken \cup {w}
          IN
          IF pr.i < Len(pr.snapshot)
            THEN /\ procs' = [procs EXCEPT ![p] = [pr EXCEPT !.i = @ + 1, !.sent_count = sent,
                                                             !.broken = broken]]
                 /\ UNCHANGED <<admin_connections, response>>
            ELSE /\ admin_connections' = admin_connections \ broken
                 /\ Respond(p, pr.op, IF pr.op = "report_security_violation"
                                         THEN ViolationReported ELSE ReturnsCount(sent))
    /\ UNCHANGED <<dbVars, user_connections, tournament_connections, quiz_sessions,
                   timers, cleanups, tasks, hist>>
    /\ Collect(closed)

\* ---------------------------------------------------------------- report_security_violation

\* A report that also closes the session.
PushAndClose(ss, sid) ==
    [ss EXCEPT ![sid].security_violations = @ + 1, ![sid].status = "completed"]

\* {"$push": {"security_violations": violation}} on the matched document.
\* (security_violations is kept as the length of the list.)
PushViolation(ss, sid) == [ss EXCEPT ![sid].security_violations = @ + 1]

\* POST /api/quiz/{session_id}/report-violation: update_one({"_id": sid, "user_id": u},
\* {"$push": ...}); a session of another user, or none, matches nothing.  Then
\* broadcast_to_admins begins, whatever the update matched: with no administrator
\* connected it returns at once and the handler answers; otherwise its loop over a
\* copy of the administrator set begins and ba_send takes the handler to its answer.
report_security_violation(p, u, sid) ==
    /\ Free(p)
    /\ IF ~IsNone(FindSession(sessions, sid, u))
         THEN /\ sessions[sid].security_violations < MaxViolations
              /\ sessions' = PushViolation(sessions, sid)
         ELSE UNCHANGED sessions
    /\ IF admin_connections = {}
         THEN Respond(p, "report_security_violation", ViolationReported)
         ELSE /\ \E snap \in Orders(admin_connections) :
                    procs' = [procs EXCEPT ![p] =
                                 NewBroadcast("ba_send", "report_security_violation", "admins", snap)]
              /\ UNCHANGED response
    /\ UNCHANGED <<users, payments, tournament, entries, wallet_transactions, wsVars, tasks, hist>>

\* ---------------------------------------------------------------- confirm_wallet_topup

\* An update that stores the amount as the balance.
SetWallet(us, u, amount) == [us EXCEPT ![u].wallet_balance = amount]

\* db.users.update_one({"_id": u}, {"$inc": {"wallet_balance": amount}}): one atomic
\* operation of the store.  (Amounts are exact, in hundredths.)
IncWallet(us, u, amount) == [us EXCEPT ![u].wallet_balance = @ + amount]

\* The amounts of the top-up payment records: add_funds_to_wallet accepts an amount
\* above 0 and up to 50000.
TopupAmounts == {1000, 2500}

\* The handler of a top-up confirmation and its payment record's amount.
NewTopup(pc, u, amount) == [pc |-> pc, op |-> "confirm_wallet_topup", user |-> u, amount |-> amount]

\* POST /api/payments/confirm-wallet-topup for a succeeded intent whose payment
\* record holds amount: the record is found and marked completed (the records of
\* top-ups are not part of the state).
confirm_wallet_topup(p, u, amount) ==
    /\ Free(p)
    /\ hist.topups < MaxTopups
    /\ procs' = [procs EXCEPT ![p] = NewTopup("wt_inc", u, amount)]
    /\ hist' = [hist EXCEPT !.topups = @ + 1]
    /\ UNCHANGED <<dbVars, wsVars, tasks, response>>

\* update_one({"_id": u}, {"$inc": {"wallet_balance": payment_record["amount"]}})
wt_inc(p) ==
    LET pr == procs[p] IN
    /\ pr.pc = "wt_inc"
    /\ users' = IncWallet(users, pr.user, pr.amount)
    /\ procs' = [procs EXCEPT ![p].pc = "wt_tx"]
    /\ hist' = [hist EXCEPT !.applied[pr.user] = @ + pr.amount]
    /\ UNCHANGED <<payments, tournament, entries, sessions, wallet_transactions, wsVars, tasks, response>>

\* db.wallet_transactions.insert_one(wallet_transaction)
wt_tx(p) ==
    LET pr == procs[p] IN
    /\ pr.pc = "wt_tx"
    /\ wallet_transactions' = Append(wallet_transactions,
           [user_id |-> pr.user, type |-> "credit", amount |-> pr.amount,
            description |-> "Wallet top-up"])
    /\ procs' = [procs EXCEPT ![p].pc = "wt_find"]
    /\ UNCHANGED <<users, payments, tournament, entries, sessions, wsVars, tasks, response, hist>>

\* db.users.find_one({"_id": u}) and the answer with the balance read.
wt_find(p) ==
    LET pr == procs[p] IN
    /\ pr.pc = "wt_find"
    /\ Respond(p, pr.op, Ok([message |-> "Wallet topped up successfully",
                             amount_added |-> pr.amount,
                             new_balance |-> users[pr.user].wallet_balance]))
    /\ UNCHANGED <<dbVars, wsVars, tasks, hist>>

\* ---------------------------------------------------------------- calculate_tournament_results

\* The filter {"final_score": {"$exists": True}}: the documents that have the field,
\* whatever its value.
Loaded(es) == {i \in DOMAIN es : "final_score" \in DOMAIN es[i]}

\* MongoDB's order of final_score values: null sorts below every number.
SortKey(e) == IF IsNone(e.final_score) THEN -1 ELSE Val(e.final_score)

\* .sort("final_score", -1): every order of the loaded entries with non-increasing
\* final_score; the order among equal scores is the store's choice.
SortedOrders(es) ==
    LET S == Loaded(es)
        k == Cardinality(S)
    IN {o \in [1..k -> S] :
           /\ \A i, j \in 1..k : o[i] = o[j] => i = j
           /\ \A i \in 1..k : \A j \in 1..k : i < j => SortKey(es[o[i]]) >= SortKey(es[o[j]])}

\* Percentages of the collected fees that make the pool, and of the pool per rank.
PoolPercent == 60
PrizePercent == <<50, 30, 20>>

\* profit = len(entries) * tournament["entry_fee"] * 0.6, in hundredths.
Profit(k, fee) == k * fee * PoolPercent

\* prizes[i] if i < 3 else 0 for the entry at rank (1-based), in hundredths:
\* profit times 0.5, 0.3 or 0.2.
PrizeAmount(k, fee, rank) ==
    IF rank <= 3 THEN (Profit(k, fee) * PrizePercent[rank]) \div 100 ELSE 0

RemoveAt(s, i) == [j \in 1..(Len(s) - 1) |-> IF j < i THEN s[j] ELSE s[j + 1]]

\* The task's next position after the entry at position i of its order.
NextEntry(t) ==
    IF t.i < Len(t.order) THEN [t EXCEPT !.pc = "rank", !.i = t.i + 1]
    ELSE [t EXCEPT !.pc = "finish"]

\* After asyncio.sleep(30): calculate_tournament_results loads and sorts the entries
\* and reads the tournament.
TaskLoad(n) ==
    LET t == tasks[n] IN
    /\ t.pc = "sleep"
    /\ IF Loaded(entries) = {}
         THEN tasks' = RemoveAt(tasks, n)
         ELSE \E o \in SortedOrders(entries) :
                 tasks' = [tasks EXCEPT ![n] = [t EXCEPT !.pc = "rank", !.order = o, !.i = 1,
                                                         !.late = tournament.status = "completed"]]
    /\ UNCHANGED <<dbVars, wsVars, procs, response, hist>>

\* update_one({"_id": entry["_id"]}, {"$set": {"rank": rank, "prize_amount": prize_amount}})
TaskRank(n) ==
    LET t == tasks[n]
        e == t.order[t.i]
        prize == PrizeAmount(Len(t.order), tournament.entry_fee, t.i)
    IN
    /\ t.pc = "rank"
    /\ entries' = [entries EXCEPT ![e].rank = Some(t.i), ![e].prize_amount = Some(prize)]
    /\ tasks' = [tasks EXCEPT ![n] = IF prize > 0 THEN [t EXCEPT !.pc = "credit"] ELSE NextEntry(t)]
    /\ hist' = [hist EXCEPT !.rank_writes[e] = @ + 1]
    /\ UNCHANGED <<users, payments, tournament, sessions, wallet_transactions, wsVars, procs, response>>

\* db.users.update_one({"_id": user_id}, {"$inc": {"wallet_balance": prize_amount}})
TaskCredit(n) ==
    LET t == tasks[n]
        u == entries[t.order[t.i]].user_id
        prize == PrizeAmount(Len(t.order), tournament.entry_fee, t.i)
    IN
    /\ t.pc = "credit"
    /\ users' = IncWallet(users, u, prize)
    /\ tasks' = [tasks EXCEPT ![n] = [t EXCEPT !.pc = "tx"]]
    /\ hist' = [hist EXCEPT !.credits[u] = @ + 1, !.applied[u] = @ + prize]
    /\ UNCHANGED <<payments, tournament, entries, sessions, wallet_transactions, wsVars, procs, response>>

\* db.wallet_transactions.insert_one(...), then send_wallet_update to the recipient.
TaskTx(n) ==
    LET t == tasks[n]
        u == entries[t.order[t.i]].user_id
        prize == PrizeAmount(Len(t.order), tournament.entry_fee, t.i)
    IN
    /\ t.pc = "tx"
    /\ wallet_transactions' = Append(wallet_transactions,
           [user_id |-> u, type |-> "credit", amount |-> prize, rank |-> t.i])
    /\ \E ok \in BOOLEAN : SendToUser(u, ok)
    /\ tasks' = [tasks EXCEPT ![n] = NextEntry(t)]
    /\ UNCHANGED <<users, payments, tournament, entries, sessions, quiz_sessions, timers,
                   cleanups, procs, response, hist>>

\* db.tournaments.update_one(..., {"$set": {"status": "completed"}}), then the broadcast
\* of the results; the task ends.
TaskFinish(n) ==
    LET t == tasks[n] IN
    /\ t.pc = "finish"
    /\ tournament' = [tournament EXCEPT !.status = "completed"]
    /\ tasks' = RemoveAt(tasks, n)
    /\ hist' = [hist EXCEPT !.settle_runs = @ + 1]
    /\ UNCHANGED <<users, payments, entries, sessions, wallet_transactions, wsVars, procs, response>>

\* An awaited storage operation of settlement task n raises: the except clause of
\* calculate_tournament_results logs the error and the task ends where it stands.
TaskFail(n) ==
    /\ tasks' = RemoveAt(tasks, n)
    /\ UNCHANGED <<dbVars, wsVars, procs, response, hist>>

\* ---------------------------------------------------------------- specifications

\* ---------------------------------------------------------------- admin: questions

\* The positions of the bank that hold the question with that id.
QuestionAt(bank, id) == {i \in DOMAIN bank : bank[i].id = id}

\* PUT /api/admin/questions/{question_id} by an administrator:
\* update_one({"_id": id}, {"$set": {options, correct_answer, ...}}); 404, turned
\* into 500 by the handler's except clause, when nothing matched.
update_question(p, id, options, correct_answer) ==
    /\ Free(p)
    /\ IF QuestionAt(tournament.bank, id) = {}
         THEN /\ UNCHANGED tournament
              /\ Respond(p, "update_question", Wrap500(HTTPException(404, "Question not found")))
         ELSE /\ tournament' = [tournament EXCEPT
                     !.bank[Min(QuestionAt(tournament.bank, id))] = Question(id, options, correct_answer)]
              /\ Respond(p, "update_question", Ok([message |-> "Question updated successfully"]))
    /\ UNCHANGED <<users, payments, entries, sessions, wallet_transactions, wsVars, tasks, hist>>

\* DELETE /api/admin/questions/{question_id} by an administrator:
\* delete_one({"_id": id}); 404, turned into 500, when nothing was deleted.
delete_question(p, id) ==
    /\ Free(p)
    /\ IF QuestionAt(tournament.bank, id) = {}
         THEN /\ UNCHANGED tournament
              /\ Respond(p, "delete_question", Wrap500(HTTPException(404, "Question not found")))
         ELSE /\ tournament' = [tournament EXCEPT
                     !.bank = RemoveAt(@, Min(QuestionAt(tournament.bank, id)))]
              /\ Respond(p, "delete_question", Ok([message |-> "Question deleted successfully"]))
    /\ UNCHANGED <<users, payments, entries, sessions, wallet_transactions, wsVars, tasks, hist>>

\* Seconds of a session's countdown (duration_minutes * 60 in the tournament document).
TotalTime == 2
\* questions_count of the tournament whose sessions are examined question by question.
QuestionsCount == 3
\* questions_count of the tournament whose requests are examined response by response.
ShortQuiz == 2

\* A category of k questions of NumOptions options each, the first one correct.
Bank(k) == [i \in 1..k |-> Question(i, SubSeq(Texts, 1, NumOptions), 0)]

\* The tournament document, with the db.questions documents of its category (bank).
Tournament(n) ==
    [status |-> "active", entry_fee |-> 39, questions_count |-> n, bank |-> Bank(n),
     total_time |-> TotalTime, window |-> "open"]

\* The tournament of n questions whose category holds bank questions.
TournamentWithBank(n, bank) == [Tournament(n) EXCEPT !.bank = Bank(bank)]

\* The state after start-up with np handler coroutines and ns session ids, for a
\* tournament of ts: empty collections of entries, sessions and transactions, no
\* connection, no task.
InitOf(np, ns, ts, paid, observed) ==
    /\ users = [u \in Users |-> [wallet_balance |-> 0]]
    /\ payments = [u \in Users |-> IF u \in paid THEN "pending" ELSE "none"]
    /\ tournament \in ts
    /\ entries = <<>>
    /\ sessions = <<>>
    /\ wallet_transactions = <<>>
    /\ user_connections = [u \in Users |-> None]
    /\ tournament_connections = <<>>
    /\ admin_connections = {}
    /\ closed = {}
    /\ quiz_sessions = [sid \in 1..ns |-> [in_map |-> FALSE, dict |-> None]]
    /\ timers = [sid \in 1..ns |-> "none"]
    /\ cleanups = [sid \in 1..ns |-> 0]
    /\ tasks = <<>>
    /\ procs = [p \in 1..np |-> IdleProc]
    /\ response = IF observed THEN [op |-> "none", resp |-> Ok([message |-> "none"])] ELSE Unobserved
    /\ hist = [status_writes |-> [sid \in 1..ns |-> 0],
               transitions |-> [sid \in 1..ns |-> 0],
               scheduled |-> [sid \in 1..ns |-> 0],
               credits |-> [u \in Users |-> 0],
               applied |-> [u \in Users |-> 0],
               topups |-> 0,
               teardown |-> None,
               rank_writes |-> [e \in 1..Cardinality(Users) |-> 0],
               time_up |-> {},
               settle_runs |-> 0]

InitWith(np, ns, n, paid, observed) == InitOf(np, ns, {Tournament(n)}, paid, observed)

QIndexes == (0 - MaxNeg)..tournament.questions_count

\* The HTTP handlers of a quiz: payment confirmation, start_quiz, submit_answer,
\* complete_quiz, step by step.
Handlers ==
    \/ \E u \in Users : ConfirmPayment(u)
    \/ \E p \in Procs, u \in Users : start_quiz(p, u)
    \/ \E p \in Procs : sq_insert(p)
    \/ \E p \in Procs : sq_link(p)
    \/ \E p \in Procs : sq_ws(p)
    \/ \E p \in Procs, u \in Users, sid \in AnySid, qi \in QIndexes, ans \in Options :
          submit_answer(p, u, sid, qi, ans)
    \/ \E p \in Procs : sa_update(p)
    \/ \E p \in Procs : sa_ws(p)
    \/ \E p \in Procs, u \in Users, sid \in AnySid : complete_quiz(p, u, sid)
    \/ \E p \in Procs : cq_find(p)
    \/ \E p \in Procs : cq_session(p)
    \/ \E p \in Procs : cq_entry(p)
    \/ \E p \in Procs : cq_ws(p)

\* The tasks of the WebSocketManager, and the connections coming and going.
Registry ==
    \/ \E u \in Users : ConnectUser(u)
    \/ \E u \in Users : DisconnectUser(u)
    \/ \E sid \in SessionIds : TimerLoop(sid)
    \/ \E sid \in SessionIds : TimerWake(sid)
    \/ \E sid \in SessionIds : CleanupSession(sid)

\* The settlement tasks.
Settlement ==
    \/ \E n \in DOMAIN tasks : TaskLoad(n)
    \/ \E n \in DOMAIN tasks : TaskRank(n)
    \/ \E n \in DOMAIN tasks : TaskCredit(n)
    \/ \E n \in DOMAIN tasks : TaskTx(n)
    \/ \E n \in DOMAIN tasks : TaskFinish(n)

\* The session of one paying participant (u1) against its timer: a quiz of one
\* question, two requests in flight at a time; u2 is a user without an entry.  The
\* settlement tasks the completions create stay asleep.
Init == InitWith(MaxProcs, 1, 1, {"u1"}, FALSE)
Next == Handlers \/ Registry
Spec == Init /\ [][Next]_vars

\* The same session with the participant's violation reports: every operation that
\* touches a stored session.
Reports == \E p \in Procs, u \in Users, sid \in AnySid : report_security_violation(p, u, sid)
NextStatus == Handlers \/ Registry \/ Reports
SpecStatus == Init /\ [][NextStatus]_vars

\* The answers of one session of QuestionsCount questions and the responses to the
\* requests, one request at a time, by a participant (u1) without a live connection
\* and by a user without an entry (u2).
InitAnswers == InitWith(1, 1, QuestionsCount, {"u1"}, TRUE)
NextAnswers == Handlers
SpecAnswers == InitAnswers /\ [][NextAnswers]_vars

\* The responses to every request on one session of ShortQuiz questions, one request
\* at a time, by the participant (u1) and by a user without an entry (u2); the
\* category holds enough questions for the quiz, or one too few.
InitResponses ==
    InitOf(1, 1, {TournamentWithBank(ShortQuiz, b) : b \in {ShortQuiz - 1, ShortQuiz}}, {"u1"}, TRUE)
SpecResponses == InitResponses /\ [][NextAnswers]_vars

\* The sessions of one paying participant (u1) whose requests interleave: a quiz of
\* one question, MaxProcs requests in flight at a time, room for MaxSid sessions.
InitBegin == InitWith(MaxProcs, MaxSid, 1, {"u1"}, FALSE)
SpecBegin == InitBegin /\ [][NextAnswers]_vars

\* Settlement: two paying participants without a live connection, a session of one
\* question each, one request at a time, and the settlement tasks.
InitSettle == InitWith(1, MaxSid, 1, Users, FALSE)
NextSettle == Handlers \/ Settlement
SpecSettle == InitSettle /\ [][NextSettle]_vars

\* The operations of the WebSocketManager the websocket endpoint calls for its
\* client, on the rooms rs: each runs to its end before the next begins.
Calls(rs) ==
    \/ \E u \in Users : connect_user(u)
    \/ \E u \in Users : Disconnect(u)
    \/ \E u \in Users, r \in rs : join_tournament_room(u, r)
    \/ \E u \in Users, r \in rs : leave_tournament_room(u, r)
    \/ \E u \in Users : Ping(u)

\* The broadcasts, send by send.
Broadcasts(rs) ==
    \/ \E p \in Procs, r \in rs : broadcast_to_tournament(p, r)
    \/ \E p \in Procs : bt_send(p)
    \/ \E p \in Procs : broadcast_to_admins(p)
    \/ \E p \in Procs : ba_send(p)

\* The registry alone: a participant (u1) and an administrator (u2) who connect,
\* join and leave the rooms and disconnect, one operation after the other; every
\* operation's result is examined.
InitRegistry == InitWith(1, 1, 1, {}, TRUE)
NextRegistry == Calls(Rooms)
SpecRegistry == InitRegistry /\ [][NextRegistry]_vars

\* The registry with one broadcast in flight at a time, its sends interleaved with
\* the other operations, on one room.
NextBroadcast == Calls({"t1"}) \/ Broadcasts({"t1"})
SpecBroadcast == InitRegistry /\ [][NextBroadcast]_vars

\* A participant (u1) who connects, disconnects and reconnects around a session of
\* one question, one request at a time, with the session's timer running.
InitReconnect == InitWith(1, MaxSid, 1, {"u1"}, FALSE)
SpecReconnect == InitReconnect /\ [][Next]_vars

\* Settlement over a store whose operations can fail: one paying participant with
\* MaxProcs requests in flight at a time, and
\* settlement tasks that a storage error ends at any of their steps.
Failures == \E n \in DOMAIN tasks : TaskFail(n)
InitFailures == InitWith(MaxProcs, 1, 1, {"u1"}, FALSE)
NextFailures == Handlers \/ Settlement \/ Failures
SpecFailures == InitFailures /\ [][NextFailures]_vars

\* A participant's session with its violation reports while the administrator (u2)
\* connects and disconnects: one request at a time, every response examined.
InitReports == InitWith(1, 1, 1, {"u1"}, TRUE)
NextReports ==
    \/ Handlers
    \/ Reports
    \/ \E u \in Users : connect_user(u)
    \/ \E u \in Users : Disconnect(u)
    \/ \E p \in Procs : ba_send(p)
SpecReports == InitReports /\ [][NextReports]_vars


\* The wallet: a paying participant (u1) whose completions start settlement tasks,
\* and top-up confirmations of either user, two requests in flight at a time.
Topups ==
    \/ \E p \in Procs, u \in Users, amount \in TopupAmounts : confirm_wallet_topup(p, u, amount)
    \/ \E p \in Procs : wt_inc(p)
    \/ \E p \in Procs : wt_tx(p)
    \/ \E p \in Procs : wt_find(p)
InitWallet == InitWith(MaxProcs, 1, 1, {"u1"}, FALSE)
NextWallet == Handlers \/ Settlement \/ Topups
SpecWallet == InitWallet /\ [][NextWallet]_vars

\* The begin of a quiz of ShortQuiz questions over categories of three questions
\* with two or three options, one of them with the same text twice; every index
\* of an option is the correct one in some category.
ShuffleBanks ==
    {<<Question(1, <<"a", "b">>, c1), Question(2, <<"a", "b", "c">>, c2),
       Question(3, <<"a", "a", "b">>, c3)>> : c1 \in 0..1, c2 \in 0..2, c3 \in 0..2}
Begin ==
    \/ \E u \in Users : ConfirmPayment(u)
    \/ \E p \in Procs, u \in Users : start_quiz(p, u)
    \/ \E p \in Procs : sq_insert(p)
    \/ \E p \in Procs : sq_link(p)
    \/ \E p \in Procs : sq_ws(p)
InitShuffle ==
    InitOf(1, 1, {[Tournament(ShortQuiz) EXCEPT !.bank = b] : b \in ShuffleBanks}, {"u1"}, TRUE)
SpecShuffle == InitShuffle /\ [][Begin]_vars

\* A quiz of one question out of a category of BankSize while an administrator
\* edits and deletes the questions of the category: one request at a time, every
\* response examined.
EditedOptions == {SubSeq(Texts, 1, NumOptions), <<"b", "a">>}
Edits ==
    \/ \E p \in Procs, id \in 1..BankSize, options \in EditedOptions, c \in Options :
          update_question(p, id, options, c)
    \/ \E p \in Procs, id \in 1..BankSize : delete_question(p, id)
InitBank == InitOf(1, 1, {TournamentWithBank(1, BankSize)}, {"u1"}, TRUE)
NextBank == Handlers \/ Edits
SpecBank == InitBank /\ [][NextBank]_vars

\* The websocket endpoint: the handlers of the connections of a participant (u1)
\* and an administrator (u2), MaxProcs of them alive at a time; each answers pings
\* until its channel ends.
Endpoints ==
    \/ \E p \in Procs, u \in Users : websocket_endpoint(p, u)
    \/ \E p \in Procs : ws_ping(p)
    \/ \E p \in Procs : ws_teardown(p)
InitEndpoint == InitWith(MaxProcs, 1, 1, {}, TRUE)
SpecEndpoint == InitEndpoint /\ [][Endpoints]_vars

\* The countdown under fair scheduling: the session of a participant (u1) who
\* connects and disconnects, one request at a time; the event loop runs every timer
\* task that is ready, so a timer at its loop test or at the end of its sleep
\* eventually takes its step.
InitTimer == InitWith(1, MaxSid, 1, {"u1"}, FALSE)
TimerFairness ==
    \A sid \in 1..MaxSid : WF_vars(TimerLoop(sid)) /\ WF_vars(TimerWake(sid))
SpecTimer == InitTimer /\ [][Next]_vars /\ TimerFairness

\* Settlement under fair scheduling: the event loop resumes every handler that is
\* inside complete_quiz_internal and every settlement task that is ready (its sleep
\* over, or its awaited storage operation done); no storage operation fails.
Completion ==
    \/ \E p \in Procs : cq_find(p)
    \/ \E p \in Procs : cq_session(p)
    \/ \E p \in Procs : cq_entry(p)
    \/ \E p \in Procs : cq_ws(p)
SettleFairness == WF_vars(Completion) /\ WF_vars(Settlement)
SpecSettleFair == InitSettle /\ [][NextSettle]_vars /\ SettleFairness

\* ---------------------------------------------------------------- claims

PrizeTransactions(u) == {i \in DOMAIN wallet_transactions : wallet_transactions[i].user_id = u}

\* C1: whatever number of completions trigger settlement, each prize recipient's
\* wallet is credited at most once for the tournament and at most one prize
\* transaction per recipient is recorded.
C1_CreditedAtMostOnce ==
    \A u \in Users : hist.credits[u] <= 1 /\ Cardinality(PrizeTransactions(u)) <= 1

\* Two settlement runs have credited the same recipient.
C1_Witness == \E u \in Users : hist.credits[u] = 2

\* The steps of settlement task n that write ranks, prizes, wallets or transactions.
SettleWrites(n) == TaskRank(n) \/ TaskCredit(n) \/ TaskTx(n)

\* C2: a settle run that finds the tournament already completed is a no-op: it changes
\* no entry's rank or prize, no wallet balance, and adds no wallet transaction.
C2_SettleIdempotent ==
    [][\A n \in DOMAIN tasks :
          (tasks[n].late /\ SettleWrites(n)) => UNCHANGED <<entries, users, wallet_transactions>>]_vars

\* A settle run that found the tournament completed is about to credit a wallet.
C2_Witness == \E n \in DOMAIN tasks : tasks[n].late /\ tasks[n].pc = "credit"

\* C3: an entry's rank and prize are unset until a settlement run has written them,
\* and once set they never change.
C3_RankSetOnce ==
    [][\A e \in DOMAIN entries :
          /\ (hist.rank_writes[e] = 0 => IsNone(entries[e].rank) /\ IsNone(entries[e].prize_amount))
          /\ (~IsNone(entries[e].rank) =>
                 /\ entries'[e].rank = entries[e].rank
                 /\ entries'[e].prize_amount = entries[e].prize_amount)]_vars

\* An entry's rank has been written twice.
C3_Witness == \E e \in DOMAIN entries : hist.rank_writes[e] = 2

\* C4: calls of scheduleSettlement within the delay window coalesce: at most one
\* settlement is pending, and settle runs once for the tournament, not once per call.
C4_Coalesced ==
    /\ Cardinality({n \in DOMAIN tasks : tasks[n].pc = "sleep"}) <= 1
    /\ hist.settle_runs + Cardinality({n \in DOMAIN tasks : tasks[n].pc # "sleep"}) <= 1

\* Two completions have each left a settlement pending.
C4_Witness == Cardinality({n \in DOMAIN tasks : tasks[n].pc = "sleep"}) = 2

\* C5: under every interleaving of the final submitAnswer, explicit complete calls and
\* the timer, a session is moved from started to completed at most once and
\* settlement is scheduled at most once for it.
C5_CompletedOnce ==
    \A sid \in SessionIds : hist.transitions[sid] <= 1 /\ hist.scheduled[sid] <= 1

\* Two completions of one session have each scheduled settlement.
C5_Witness == \E sid \in SessionIds : hist.scheduled[sid] = 2

\* C6: once the timer of a session has expired on a still-started session, the stored
\* session is completed, its entry carries a final score and settlement has been
\* scheduled for it.
C6_TimeUpCompletes ==
    \A sid \in hist.time_up :
        /\ sessions[sid].status = "completed"
        /\ \E e \in DOMAIN entries :
              entries[e].quiz_session_id = Some(sid) /\ ~IsNone(entries[e].final_score)
        /\ hist.scheduled[sid] >= 1

\* The timer of a session has expired and an answer is recorded in it afterwards.
C6_Witness ==
    \E sid \in hist.time_up : sessions[sid].status = "started" /\ sessions[sid].answers # <<>>

Slot(answers, i) == IF i + 1 \in DOMAIN answers THEN answers[i + 1] ELSE None

\* C7: an answer slot is write-once: the answer recorded at a question index is the
\* same in every later state, under every interleaving of submissions.
C7_WriteOnce ==
    [][\A sid \in DOMAIN sessions : \A i \in 0..(Len(sessions[sid].questions) - 1) :
          ~IsNone(Slot(sessions[sid].answers, i)) =>
              Slot(sessions'[sid].answers, i) = Slot(sessions[sid].answers, i)]_vars

\* Two submissions to the same question index are both past the already-answered check.
C7_Witness ==
    \E p, q \in Procs :
        /\ p # q
        /\ procs[p].pc = "sa_update" /\ procs[q].pc = "sa_update"
        /\ procs[p].sid = procs[q].sid /\ procs[p].qi = procs[q].qi

\* The number of question positions whose recorded answer is the question's correct_answer.
CorrectCount(session) ==
    Cardinality({i \in 0..(Len(session.questions) - 1) :
        /\ ~IsNone(Slot(session.answers, i))
        /\ Val(Slot(session.answers, i)).answer = session.questions[i + 1].correct_answer})

\* C8: in every reachable state the score of a session is the number of positions
\* whose recorded answer equals the question's correct answer.
C8_ScoreIsCorrectCount ==
    \A sid \in DOMAIN sessions : sessions[sid].score = CorrectCount(sessions[sid])

\* An answer was recorded through a negative question index.
C8_Witness == \E sid \in DOMAIN sessions : sessions[sid].current_question < 0

InvalidQuestionIndex == Wrap500(HTTPException(400, "Invalid question index"))
SessionNotFound == Wrap500(HTTPException(404, "Quiz session not found"))
SessionNotActive == Wrap500(HTTPException(400, "Quiz session is not active"))
AlreadyAnswered == Wrap500(HTTPException(400, "Question already answered"))

\* The session a request by u for sid addresses is stored and started.
Active(sid, u) ==
    /\ ~IsNone(FindSession(sessions, sid, u))
    /\ sessions[sid].status = "started"

\* C9: submitAnswer on a started session with a question index outside
\* 0..questionCount-1 fails with InvalidQuestionIndex and leaves the session unchanged.
C9_InvalidIndexRejected ==
    [][\A p \in Procs, u \in Users, sid \in AnySid, qi \in QIndexes, ans \in Options :
          (/\ submit_answer(p, u, sid, qi, ans)
           /\ Active(sid, u)
           /\ qi \notin 0..(Len(sessions[sid].questions) - 1))
          => /\ response' = [op |-> "submit_answer", resp |-> InvalidQuestionIndex]
             /\ procs'[p] = IdleProc
             /\ UNCHANGED sessions]_vars

\* A submit_answer with a negative question index was answered by an IndexError.
C9_Witness ==
    response = [op |-> "submit_answer", resp |-> Wrap500(IndexError)]

C11_CompleteIdempotent ==
    [][\A p \in Procs, u \in Users, sid \in AnySid :
          (/\ complete_quiz(p, u, sid)
           /\ ~IsNone(FindSession(sessions, sid, u))
           /\ sessions[sid].status = "completed")
          => /\ response'.op = "complete_quiz"
             /\ ~IsError(response'.resp)
             /\ "results" \in DOMAIN response'.resp.body
             /\ response'.resp.body.results = Results(sessions[sid])
             /\ UNCHANGED <<sessions, entries, tasks>>]_vars

\* complete was called on a completed session and answered with the bare message.
C11_Witness ==
    /\ response = [op |-> "complete_quiz", resp |-> Ok([message |-> "Quiz already completed"])]
    /\ \E sid \in DOMAIN sessions : sessions[sid].status = "completed"

\* The entry linked to session sid carries a final score.
FinalScoreRecorded(es, sid) ==
    \E e \in DOMAIN es : es[e].quiz_session_id = Some(sid) /\ ~IsNone(es[e].final_score)

\* C12: when a successful submitAnswer for the last question returns, the session is
\* completed, its entry carries the final score and settlement has been scheduled for
\* it; when one for another question returns, the session is still started.
C12_LastAnswerCompletes ==
    [][\A p \in Procs :
          (procs[p].op = "submit_answer" /\ procs[p].pc # "idle" /\ procs'[p] = IdleProc)
          => LET sid == procs[p].sid IN
             IF IsLastQuestion(sessions[sid], procs[p].qi)
               THEN /\ sessions'[sid].status = "completed"
                    /\ FinalScoreRecorded(entries', sid)
                    /\ hist'.scheduled[sid] >= 1
               ELSE sessions'[sid].status = "started"]_vars

\* A submitAnswer for the last question is about to return on a session that another
\* request completed, before that request has written the final score.
C12_Witness ==
    \E p \in Procs :
        /\ procs[p].op = "submit_answer" /\ procs[p].pc = "cq_find"
        /\ sessions[procs[p].sid].status = "completed"
        /\ \E e \in DOMAIN entries :
              entries[e].quiz_session_id = Some(procs[p].sid) /\ IsNone(entries[e].final_score)

\* C13: the status of a stored session is monotonic: a session that is no longer
\* started keeps its status in every step, whichever operation takes the step.
C13_StatusMonotonic ==
    [][\A sid \in DOMAIN sessions :
          /\ sessions[sid].status \in {"started", "completed", "abandoned"}
          /\ sessions[sid].status # "started" => sessions'[sid].status = sessions[sid].status]_vars

\* A completed session on which an answer written by a request that read it as
\* started has landed, and a violation has been reported.
C13_Witness ==
    \E sid \in DOMAIN sessions :
        /\ sessions[sid].status = "completed"
        /\ sessions[sid].security_violations > 0
        /\ \E p \in Procs : procs[p].op = "submit_answer" /\ procs[p].pc = "sa_ws" /\ procs[p].sid = sid

SessionsOf(u) == {sid \in DOMAIN sessions : sessions[sid].user_id = u}

\* C14: at most one quiz session is ever created for a user in the tournament, under
\* every interleaving of that user's begin calls, and the entry links to that session.
C14_OneSessionPerUser ==
    \A u \in Users :
        /\ Cardinality(SessionsOf(u)) <= 1
        /\ \A e \in EntryOf(entries, u) :
              ~IsNone(entries[e].quiz_session_id) => SessionsOf(u) = {Val(entries[e].quiz_session_id)}

\* Two begin calls of one user are both past the existing-session check.
C14_Witness ==
    \E p, q \in Procs :
        /\ p # q
        /\ procs[p].pc = "sq_insert" /\ procs[q].pc = "sq_insert"
        /\ procs[p].user = procs[q].user

\* User u has a paid entry in the tournament.
HasEntry(es, u) == \E e \in DOMAIN es : es[e].user_id = u

NotJoined == Wrap500(HTTPException(400, "You haven't joined this tournament"))

\* C15: begin by a user without an entry fails, creates no session, starts no timer
\* and changes no entry; every stored session belongs to a user who has an entry.
C15_BeginNeedsEntry ==
    [][/\ \A p \in Procs, u \in Users :
             (start_quiz(p, u) /\ ~HasEntry(entries, u))
             => /\ response' = [op |-> "start_quiz", resp |-> NotJoined]
                /\ procs'[p] = IdleProc
                /\ UNCHANGED <<sessions, entries, timers, quiz_sessions>>
       /\ \A sid \in DOMAIN sessions' : HasEntry(entries', sessions'[sid].user_id)]_vars

\* A begin by a user without an entry was refused while another user had a session.
C15_Witness ==
    /\ response = [op |-> "start_quiz", resp |-> NotJoined]
    /\ sessions # <<>>

InsufficientQuestions == Wrap500(HTTPException(400, "Not enough questions for this tournament"))

\* C16: begin on a tournament whose question pool is smaller than its question count
\* fails with InsufficientQuestions, creates no session, links no session to the
\* entry and starts no timer.
C16_PoolTooSmall ==
    [][/\ \A p \in Procs, u \in Users :
             (/\ start_quiz(p, u)
              /\ HasEntry(entries, u)
              /\ Len(tournament.bank) < tournament.questions_count)
             => /\ response' = [op |-> "start_quiz", resp |-> InsufficientQuestions]
                /\ procs'[p] = IdleProc
                /\ UNCHANGED <<sessions, entries, timers, quiz_sessions>>
       /\ Len(tournament.bank) < tournament.questions_count =>
             /\ sessions' = <<>>
             /\ \A e \in DOMAIN entries' : IsNone(entries'[e].quiz_session_id)
             /\ \A sid \in SessionIds : timers'[sid] = "none"]_vars

\* A begin of a participant with an entry was refused for want of questions.
C16_Witness ==
    /\ response = [op |-> "start_quiz", resp |-> InsufficientQuestions]
    /\ entries # <<>>
    /\ Len(tournament.bank) < tournament.questions_count

\* C17: in every reachable state a user has at most one entry of the tournament,
\* however often and in whatever order the users' payments are confirmed.
C17_OneEntryPerUser ==
    \A u \in Users : Cardinality({i \in DOMAIN entries : entries[i].user_id = u}) <= 1

\* Every user's payment is confirmed and every user holds an entry.
C17_Witness ==
    /\ \A u \in Users : payments[u] = "completed"
    /\ \A u \in Users : \E i \in DOMAIN entries : entries[i].user_id = u
    /\ Len(entries) = Cardinality(Users)

\* Entry a is placed before entry b by score, then by join time.
RanksBefore(a, b) ==
    \/ Val(a.final_score) > Val(b.final_score)
    \/ Val(a.final_score) = Val(b.final_score) /\ a.joined_at <= b.joined_at

\* C18: the order in which a settlement ranks the entries it loaded is descending
\* in score, and among entries of equal score the one that joined earlier comes
\* first.
C18_RankedByScoreThenJoin ==
    [][\A n \in DOMAIN tasks :
          (TaskLoad(n) /\ Len(tasks') = Len(tasks)) =>
             \A i, j \in DOMAIN tasks'[n].order :
                LET a == entries[tasks'[n].order[i]]
                    b == entries[tasks'[n].order[j]]
                IN (i < j /\ ~IsNone(a.final_score) /\ ~IsNone(b.final_score)) => RanksBefore(a, b)]_vars

\* Two entries of equal score are ranked, the later joiner ahead of the earlier.
C18_Witness ==
    \E a, b \in DOMAIN entries :
        /\ ~IsNone(entries[a].final_score) /\ entries[a].final_score = entries[b].final_score
        /\ entries[a].joined_at < entries[b].joined_at
        /\ entries[a].rank = Some(2) /\ entries[b].rank = Some(1)

\* The entries whose participant completed a session: final_score is a number.
Finishers(es) == {i \in DOMAIN es : ~IsNone(es[i].final_score)}

\* The entry fees collected from the finishers.
FeesOfFinishers(es) ==
    SeqSum([i \in 1..Len(es) |-> IF i \in Finishers(es) THEN es[i].entry_fee ELSE 0])

\* 50%, 30% and 20% of the pool for ranks 1, 2 and 3, nothing beyond.
ShareOf(pool, rank) ==
    IF rank = 1 THEN (pool * 50) \div 100
    ELSE IF rank = 2 THEN (pool * 30) \div 100
    ELSE IF rank = 3 THEN (pool * 20) \div 100
    ELSE 0

\* C19: the pool a settlement computes is 0.6 times the entry fees of the finishers
\* (0.6 * F * k for k finishers at fee F), the prize it writes for a rank is that
\* rank's share of the pool (50%, 30%, 20%, then 0), and the prizes of one
\* settlement add up to at most the pool.  Amounts are in hundredths.
C19_PoolAndShares ==
    [][\A n \in DOMAIN tasks :
          /\ (TaskLoad(n) /\ Len(tasks') = Len(tasks)) =>
                Profit(Len(tasks'[n].order), tournament.entry_fee) = 60 * FeesOfFinishers(entries)
          /\ TaskRank(n) =>
                LET t == tasks[n]
                    pool == Profit(Len(t.order), tournament.entry_fee)
                IN /\ entries'[t.order[t.i]].prize_amount = Some(ShareOf(pool, t.i))
                   /\ SeqSum([r \in 1..Len(t.order) |-> ShareOf(pool, r)]) <= pool]_vars

\* One participant finished, and the winner's prize is half the pool of two fees.
C19_Witness ==
    /\ Cardinality(Finishers(entries)) = 1
    /\ \E e \in DOMAIN entries :
          /\ entries[e].rank = Some(1)
          /\ entries[e].prize_amount = Some(ShareOf(60 * 2 * tournament.entry_fee, 1))

\* C20: a settlement considers only entries with a final score: an entry whose
\* final_score is unset is in no settlement's order (so not counted in its pool),
\* has no rank and no prize, and its user has received no credit and no prize
\* transaction.
C20_OnlyFinishersSettled ==
    /\ \A n \in DOMAIN tasks : \A i \in DOMAIN tasks[n].order :
          ~IsNone(entries[tasks[n].order[i]].final_score)
    /\ \A e \in DOMAIN entries :
          IsNone(entries[e].final_score) =>
             /\ IsNone(entries[e].rank)
             /\ IsNone(entries[e].prize_amount)
             /\ hist.credits[entries[e].user_id] = 0
             /\ \A i \in DOMAIN wallet_transactions :
                   wallet_transactions[i].user_id # entries[e].user_id

\* A participant who never started a session is ranked second, holds a prize, and
\* the prize is in the wallet.
C20_Witness ==
    \E e \in DOMAIN entries :
        /\ IsNone(entries[e].quiz_session_id)
        /\ IsNone(entries[e].final_score)
        /\ entries[e].rank = Some(2)
        /\ ~IsNone(entries[e].prize_amount)
        /\ users[entries[e].user_id].wallet_balance > 0
        /\ \E i \in DOMAIN wallet_transactions :
              wallet_transactions[i].user_id = entries[e].user_id

\* No settlement task is between its load and its end.
SettleIdle == \A n \in DOMAIN tasks : tasks[n].pc = "sleep"

\* C21: whenever no settlement is in progress, also after one was ended by a storage
\* failure, every user has as many prize credits on the wallet as prize
\* transaction records.
C21_CreditWithTransaction ==
    SettleIdle => \A u \in Users : hist.credits[u] = Cardinality(PrizeTransactions(u))

\* No settlement is in progress, and a wallet holds a prize that no transaction
\* records.
C21_Witness ==
    /\ SettleIdle
    /\ \E u \in Users :
          /\ users[u].wallet_balance > 0
          /\ hist.credits[u] = 1
          /\ PrizeTransactions(u) = {}

\* User u has a session in status started.
HasStartedSession(u) == \E sid \in SessionsOf(u) : sessions[sid].status = "started"

\* C22: a user who lost the connection during a started session can connect again
\* under the same identity; the new connection is the one send_to_user (and so the
\* session's timer) delivers on, and connecting creates no session and leaves the
\* stored session, the in-memory session with its current-question pointer and the
\* timer as they were; the user never has a second session.
C22_Reconnect ==
    [][\A u \in Users :
          /\ (HasStartedSession(u) /\ IsNone(user_connections[u])) =>
                ENABLED (ConnectUser(u) /\ Delivered(user_connections', u, TRUE))
          /\ (HasStartedSession(u) /\ IsNone(user_connections[u]) /\ ConnectUser(u)) =>
                /\ user_connections'[u] \in {None, Some(NewSocket(user_connections, u))}
                /\ \A v \in Users \ {u} : user_connections'[v] = user_connections[v]
                /\ UNCHANGED <<sessions, entries, quiz_sessions, timers>>
          /\ Cardinality(SessionsOf(u)) <= 1]_vars

\* A started session whose timer runs while its user has no connection.
C22_Witness ==
    \E u \in Users : \E sid \in SessionsOf(u) :
        /\ sessions[sid].status = "started"
        /\ quiz_sessions[sid].in_map
        /\ timers[sid] \in {"loop", "sleeping"}
        /\ IsNone(user_connections[u])

\* C23: the user map holds at most one websocket per user, registered under its
\* own user; connect_user for a user who already has a connection closes that
\* websocket, puts the new one in its place (or leaves the user without one when the
\* first message cannot be sent on it), changes no other user's connection, and
\* returns without raising.
C23_Supersede ==
    [][\A u \in Users :
          /\ connect_user(u) =>
                LET prior == user_connections[u]
                    w == AcceptedSocket(u)
                IN /\ response' = [op |-> "connect_user", resp |-> ReturnsNone]
                   /\ user_connections'[u] \in {Some(w), None}
                   /\ ~IsNone(prior) =>
                         /\ w # Val(prior)
                         /\ Val(prior) \notin Registered'
                         /\ Val(prior) \in Referenced' => Val(prior) \in closed'
                   /\ \A v \in Users \ {u} : user_connections'[v] = user_connections[v]
          /\ Cardinality({w \in Registered' : w[1] = u}) <= 1
          /\ \A w \in Registered' : user_connections'[w[1]] = Some(w)]_vars

\* A second connection of a user replaced the first, which was closed.
C23_Witness ==
    \E u \in Users :
        /\ response.op = "connect_user"
        /\ user_connections[u] = Some(<<u, 2>>)
        /\ <<u, 1>> \in closed

\* C24: every websocket in a room's set or in the administrator set is the
\* websocket the user map holds for some user.
C24_MembersAreLive == Members \cup admin_connections \subseteq Registered

\* A websocket that was superseded and closed is still in a room or in the
\* administrator set.
C24_Witness == \E w \in closed : w \in Members \cup admin_connections

\* C25: disconnect_user takes the user's websocket out of the user map, the
\* administrator set and every room, leaves every other websocket where it was,
\* and changes nothing for a user without a connection.
C25_DisconnectFrame ==
    [][\A u \in Users :
          Disconnect(u) =>
             LET c == user_connections[u] IN
             IF IsNone(c) THEN UNCHANGED connVars
             ELSE /\ IsNone(user_connections'[u])
                  /\ Val(c) \notin admin_connections'
                  /\ Val(c) \notin Members'
                  /\ \A v \in Users \ {u} : user_connections'[v] = user_connections[v]
                  /\ admin_connections' = admin_connections \ {Val(c)}
                  /\ \A r \in DOMAIN tournament_connections : \A w \in tournament_connections[r] \ {Val(c)} :
                        r \in DOMAIN tournament_connections' /\ w \in tournament_connections'[r]
                  /\ Members' \subseteq Members]_vars

\* A disconnect_user has run: its user has no connection while another user's
\* websocket is registered and in a room.
C25_Witness ==
    /\ response.op = "disconnect_user"
    /\ \E u \in Users : IsNone(user_connections[u])
    /\ Registered \cap Members # {}

\* C26: join_tournament_room for a user without a connection returns False and
\* changes nothing; for a user with a connection it returns True with the user's
\* websocket in the room.
C26_JoinResult ==
    [][\A u \in Users, r \in Rooms :
          join_tournament_room(u, r) =>
             LET c == user_connections[u] IN
             IF IsNone(c)
               THEN /\ response' = [op |-> "join_tournament_room", resp |-> ReturnsBool(FALSE)]
                    /\ UNCHANGED connVars
               ELSE /\ response' = [op |-> "join_tournament_room", resp |-> ReturnsBool(TRUE)]
                    /\ r \in DOMAIN tournament_connections'
                    /\ Val(c) \in tournament_connections'[r]]_vars

\* join_tournament_room returned True, and no websocket is in any room.
C26_Witness ==
    /\ response = [op |-> "join_tournament_room", resp |-> ReturnsBool(TRUE)]
    /\ Members = {}

\* C27: send_to_user returns a boolean: False with nothing changed for a user
\* without a connection; True with the connection kept when send_text went
\* through; False after a failed send_text, with the user's websocket out of the
\* user map, every room and the administrator set.
C27_SendResult ==
    [][\A u \in Users :
          Ping(u) =>
             LET c == user_connections[u] IN
             /\ response'.op = "send_to_user"
             /\ response'.resp.kind = "bool"
             /\ IF IsNone(c) THEN ~response'.resp.value /\ UNCHANGED connVars
                ELSE IF response'.resp.value THEN UNCHANGED connVars
                ELSE /\ IsNone(user_connections'[u])
                     /\ Val(c) \notin Members' \cup admin_connections'
                     /\ \A v \in Users \ {u} : user_connections'[v] = user_connections[v]]_vars

\* A send_to_user failed on a websocket: its user has no connection, and a room the
\* websocket was in is left.
C27_Witness ==
    /\ response = [op |-> "send_to_user", resp |-> ReturnsBool(FALSE)]
    /\ \E u \in Users : IsNone(user_connections[u])
    /\ DOMAIN tournament_connections # {}

\* C28: no operation of the registry raises to its caller: every result is a
\* return value.
C28_NothingRaises == response.resp.kind # "KeyError"

\* broadcast_to_tournament raised KeyError for its room.
C28_Witness ==
    /\ response.op = "broadcast_to_tournament"
    /\ response.resp.kind = "KeyError"
    /\ "t1" \notin DOMAIN tournament_connections

\* C30: no room of the room map has an empty set.
C30_NoEmptyRoom == \A r \in DOMAIN tournament_connections : tournament_connections[r] # {}

\* A disconnect_user left a room with an empty set in the map.
C30_Witness ==
    /\ response.op = "disconnect_user"
    /\ \E r \in DOMAIN tournament_connections : tournament_connections[r] = {}

\* C29: a violation report on the reporter's own stored session appends exactly one
\* entry to that session's violation log and leaves its score, answers, status and
\* current-question pointer, every other session and every entry unchanged; it
\* makes one administrator broadcast, which either finds no administrator or sends
\* once to each member of the administrator set as it was at that moment; the sends
\* of that broadcast change no session, and the report then answers "Violation
\* reported".
C29_ReportViolation ==
    [][/\ \A p \in Procs, u \in Users, sid \in AnySid :
             report_security_violation(p, u, sid) /\ ~IsNone(FindSession(sessions, sid, u)) =>
                 /\ sessions' = [sessions EXCEPT ![sid].security_violations = @ + 1]
                 /\ UNCHANGED <<entries, users, wallet_transactions, quiz_sessions, connVars>>
                 /\ IF admin_connections = {}
                      THEN /\ Free(p)'
                           /\ response' = [op |-> "report_security_violation", resp |-> ViolationReported]
                      ELSE /\ procs'[p].op = "report_security_violation"
                           /\ procs'[p].pc = "ba_send"
                           /\ Range(procs'[p].snapshot) = admin_connections
                           /\ Len(procs'[p].snapshot) = Cardinality(admin_connections)
                           /\ procs'[p].i = 1
       /\ \A p \in Procs :
             ba_send(p) /\ procs[p].op = "report_security_violation" =>
                 /\ UNCHANGED <<sessions, entries>>
                 /\ \/ procs'[p].pc = "ba_send" /\ procs'[p].i = procs[p].i + 1
                    \/ /\ Free(p)' /\ procs[p].i = Len(procs[p].snapshot)
                       /\ response' = [op |-> "report_security_violation", resp |-> ViolationReported]
      ]_vars

\* A report on a started session that holds an answer and a score has gone to a
\* connected administrator and been answered.
C29_Witness ==
    /\ response = [op |-> "report_security_violation", resp |-> ViolationReported]
    /\ admin_connections # {}
    /\ \E sid \in DOMAIN sessions :
          /\ sessions[sid].security_violations > 0
          /\ sessions[sid].status = "started"
          /\ sessions[sid].current_question > 0

\* The membership set a broadcast coroutine was started on, as it is now.
BroadcastSet(pr) ==
    IF pr.pc = "ba_send" THEN admin_connections
    ELSE IF pr.room \in DOMAIN tournament_connections THEN tournament_connections[pr.room]
    ELSE {}

\* C31: a broadcast to a room or to the administrators returns a count, the number
\* of websockets of its snapshot on which send_text succeeded (0 for a room that is
\* not in the map, with nothing changed); and when it returns, the websockets on
\* which send_text failed are out of the set it was broadcast to while every other
\* member is still in it.
C31_CountAndPrune ==
    [][/\ \A p \in Procs, r \in Rooms :
             broadcast_to_tournament(p, r) /\ r \notin DOMAIN tournament_connections =>
                 /\ response' = [op |-> "broadcast_to_tournament", resp |-> ReturnsCount(0)]
                 /\ UNCHANGED connVars
       /\ \A p \in Procs :
             /\ bt_send(p) \/ ba_send(p)
             /\ procs[p].op \in {"broadcast_to_tournament", "broadcast_to_admins"}
             /\ Free(p)'
             => /\ response'.op = procs[p].op
                /\ response'.resp.kind = "int"
                /\ LET pr == procs[p]
                       n == response'.resp.value
                       failed == IF n = pr.sent_count THEN pr.broken \cup {pr.snapshot[pr.i]}
                                 ELSE pr.broken
                   IN /\ n = Cardinality(Range(pr.snapshot) \ failed)
                      /\ IF pr.pc = "ba_send"
                           THEN admin_connections' = BroadcastSet(pr) \ failed
                           ELSE /\ DOMAIN tournament_connections' = DOMAIN tournament_connections
                                /\ pr.room \in DOMAIN tournament_connections =>
                                       tournament_connections'[pr.room] = BroadcastSet(pr) \ failed
      ]_vars

\* broadcast_to_tournament ended without a count while the user whose send failed
\* is still connected.
C31_Witness ==
    /\ response.op = "broadcast_to_tournament"
    /\ response.resp.kind # "int"
    /\ \E u \in Users : ~IsNone(user_connections[u])

\* C32: under every interleaving of prize credits and top-up confirmations no
\* wallet update is lost: each user's balance is the initial balance (0) plus the
\* sum of the amounts of the updates applied to that wallet so far, and each update
\* changes the balance it finds by its amount.
C32_NoLostUpdate ==
    /\ [](\A u \in Users : users[u].wallet_balance = hist.applied[u])
    /\ [][\A u \in Users :
             users'[u].wallet_balance - users[u].wallet_balance = hist'.applied[u] - hist.applied[u]]_vars

\* A prize credit and a top-up of the same user, in flight together, have both been
\* applied to the wallet.
C32_Witness ==
    /\ \E n \in DOMAIN tasks : tasks[n].pc = "tx" /\ entries[tasks[n].order[tasks[n].i]].user_id = "u1"
    /\ \E p \in Procs : /\ procs[p].pc = "wt_tx" /\ procs[p].user = "u1"
                        /\ users["u1"].wallet_balance =
                              PrizeAmount(1, tournament.entry_fee, 1) + procs[p].amount

\* The sessions whose timer ran out while their user had no connection.
ExpiredOffline ==
    {sid \in hist.time_up : IsNone(user_connections[Val(quiz_sessions[sid].dict).user_id])}

\* C33: a disconnect changes no stored session, no entry, no registry dict and no
\* timer; a sleeping timer can always take its next second, connection or none, and
\* that step lowers the remaining time by one; and a session whose timer ran out
\* while its user was disconnected has been ended: its stored status is completed.
C33_DisconnectKeepsSession ==
    /\ [][\A u \in Users :
             DisconnectUser(u) => UNCHANGED <<sessions, entries, quiz_sessions, timers>>]_vars
    /\ [][\A sid \in SessionIds :
             TimerWake(sid) =>
                 Val(quiz_sessions'[sid].dict).time_remaining
                     = Val(quiz_sessions[sid].dict).time_remaining - 1]_vars
    /\ [](\A sid \in SessionIds : timers[sid] = "sleeping" => ENABLED TimerWake(sid))
    /\ [](\A sid \in ExpiredOffline : sessions[sid].status = "completed")

\* The timer of a disconnected user's session has run out, the registry's dict is
\* completed, and the stored session is still started.
C33_Witness ==
    \E sid \in ExpiredOffline :
        /\ Val(quiz_sessions[sid].dict).status = "completed"
        /\ Val(quiz_sessions[sid].dict).time_remaining = 0
        /\ sessions[sid].status = "started"

\* The question of the bank a stored question was made from.
Original(sq) == CHOOSE q \in Range(tournament.bank) : q.id = sq.id

\* C35: a begun session holds exactly questions_count questions of the bank,
\* pairwise distinct; the options of each are a permutation of the question's
\* original options, and the option at the stored correct_answer index is the
\* originally correct option, whatever the shuffles were.
C35_SelectionAndShuffle ==
    \A sid \in DOMAIN sessions :
        LET qs == sessions[sid].questions IN
        /\ Len(qs) = tournament.questions_count
        /\ \A i, j \in DOMAIN qs : qs[i].id = qs[j].id => i = j
        /\ \A i \in DOMAIN qs :
              /\ \E q \in Range(tournament.bank) : q.id = qs[i].id
              /\ \E perm \in Orders(DOMAIN Original(qs[i]).options) :
                    qs[i].options = Shuffled(Original(qs[i]).options, perm)
              /\ qs[i].correct_answer \in 0..(Len(qs[i].options) - 1)
              /\ qs[i].options[qs[i].correct_answer + 1]
                     = Original(qs[i]).options[Original(qs[i]).correct_answer + 1]

\* A session is stored in which the correct option of one question has moved to
\* another index and the question with a repeated option text has its options in
\* another order.
C35_Witness ==
    \E sid \in DOMAIN sessions :
        LET qs == sessions[sid].questions IN
        /\ \E i \in DOMAIN qs : qs[i].correct_answer # Original(qs[i]).correct_answer
        /\ \E i \in DOMAIN qs : qs[i].id = 3 /\ qs[i].options # Original(qs[i]).options

\* C34: a session scores against the questions stored in it at begin: an update or
\* a deletion of a question of the bank changes no session; the questions stored
\* in a session are the same in every later state; and each recorded answer is
\* judged against the stored correct_answer, the score rising by one exactly for a
\* correct answer.
C34_ScoresAgainstSnapshot ==
    [][/\ \A p \in Procs, id \in 1..BankSize :
             \/ delete_question(p, id)
             \/ \E options \in EditedOptions, c \in Options : update_question(p, id, options, c)
             => UNCHANGED <<sessions, entries>>
       /\ \A sid \in DOMAIN sessions : sessions'[sid].questions = sessions[sid].questions
       /\ \A p \in Procs :
             sa_update(p) =>
                 LET pr == procs[p]
                     stored == sessions[pr.sid].questions[PyIdx(Len(sessions[pr.sid].questions), pr.qi)]
                     correct == pr.ans = stored.correct_answer
                 IN /\ Val(pr.upd).is_correct = correct
                    /\ Val(pr.upd).correct_answer = stored.correct_answer
                    /\ sessions'[pr.sid].score = sessions[pr.sid].score + (IF correct THEN 1 ELSE 0)
      ]_vars

\* An answer was judged correct and scored although the bank's question of that id,
\* its options in the stored order, now has another correct_answer, and the other
\* question of the category has been deleted.
C34_Witness ==
    /\ response.op = "submit_answer"
    /\ ~IsError(response.resp)
    /\ response.resp.body.is_correct
    /\ Len(tournament.bank) < BankSize
    /\ \E sid \in DOMAIN sessions :
          LET stored == sessions[sid].questions[response.resp.body.question_index + 1] IN
          /\ sessions[sid].score > 0
          /\ \E q \in Range(tournament.bank) :
                /\ q.id = stored.id
                /\ q.correct_answer # stored.correct_answer
                /\ q.options = stored.options

\* C36: when the handler of a superseded websocket runs its teardown, the user's
\* newer websocket stays registered: the user map is as it was, and a send to the
\* user can still succeed.
C36_TeardownKeepsNewer ==
    [][\A p \in Procs :
          LET u == procs[p].user IN
          /\ ws_teardown(p)
          /\ procs[p].ws \in closed
          /\ ~IsNone(user_connections[u])
          => /\ user_connections' = user_connections
             /\ \E ok \in BOOLEAN : Delivered(user_connections', u, ok)]_vars

\* The teardown of a superseded handler found the user's newer websocket
\* registered; the newer handler is still waiting on its open websocket, and the
\* user has no connection.
C36_Witness ==
    \E t \in Range(hist.teardown) :
        /\ t.superseded
        /\ ~IsNone(t.found)
        /\ Val(t.found) \in Held
        /\ Val(t.found) \notin closed
        /\ IsNone(user_connections[t.ws[1]])
        /\ response.op = "disconnect_user"

\* The entries linked to session sid.
EntriesOfSession(sid) == {e \in DOMAIN entries : entries[e].quiz_session_id = Some(sid)}

\* C37: in every state a completed session's entry carries the session's score as
\* its final score, and no step records an answer in a completed session, under
\* every interleaving of submissions and completions.
C37_CompletedIsFinal ==
    /\ [](\A sid \in DOMAIN sessions :
             sessions[sid].status = "completed" =>
                 /\ EntriesOfSession(sid) # {}
                 /\ \A e \in EntriesOfSession(sid) : entries[e].final_score = Some(sessions[sid].score))
    /\ [][\A sid \in DOMAIN sessions :
             sessions[sid].status = "completed" => sessions'[sid].answers = sessions[sid].answers]_vars

\* A completed session whose entry has a final score, after which a correct answer
\* was recorded: the session's score is above the entry's final score.
C37_Witness ==
    \E sid \in DOMAIN sessions : \E e \in EntriesOfSession(sid) :
        /\ sessions[sid].status = "completed"
        /\ ~IsNone(entries[e].final_score)
        /\ sessions[sid].score > Val(entries[e].final_score)
        /\ sessions[sid].answers # <<>>

\* C38: a submit_answer that recorded its answer goes on to complete_quiz_internal
\* exactly when its question index is questions_count - 1, whatever the earlier
\* positions hold, and then returns with the session completed; for any other index
\* it returns with the session as started as it was.
C38_LastIndexCompletes ==
    [][\A p \in Procs :
          /\ sa_ws(p) =>
                (procs'[p].pc = "cq_find" <=> procs[p].qi = Len(sessions[procs[p].sid].questions) - 1)
          /\ (procs[p].op = "submit_answer" /\ procs[p].pc # "idle" /\ Free(p)') =>
                (sessions'[procs[p].sid].status = "completed"
                     <=> procs[p].qi = Len(sessions[procs[p].sid].questions) - 1)]_vars

\* A submit_answer for the last position has completed a session whose earlier
\* positions hold no answer.
C38_Witness ==
    /\ response.op = "submit_answer"
    /\ ~IsError(response.resp)
    /\ \E sid \in DOMAIN sessions :
          /\ sessions[sid].status = "completed"
          /\ Len(sessions[sid].answers) = Len(sessions[sid].questions)
          /\ \A i \in 1..(Len(sessions[sid].questions) - 1) : IsNone(sessions[sid].answers[i])

\* The registry dicts that exist (in the map, or still held by their timer).
Dicts == {sid \in SessionIds : ~IsNone(quiz_sessions[sid].dict)}

\* C39: the remaining time of a session's dict never increases and is never below
\* 0; under fair scheduling every timer that was started eventually leaves its loop
\* with the dict's status completed; and a timer that has left its loop takes no
\* further step, so it sends no further time_update.
C39_CountdownTerminates ==
    /\ [](\A sid \in Dicts : Val(quiz_sessions[sid].dict).time_remaining >= 0)
    /\ [][\A sid \in Dicts :
             Val(quiz_sessions'[sid].dict).time_remaining <= Val(quiz_sessions[sid].dict).time_remaining]_vars
    /\ \A sid \in 1..MaxSid :
          (timers[sid] # "none")
              ~> (timers[sid] = "done" /\ Val(quiz_sessions[sid].dict).status = "completed")
    /\ [](\A sid \in SessionIds :
             timers[sid] = "done" => ~ENABLED TimerWake(sid) /\ ~ENABLED TimerLoop(sid))
    /\ [][\A sid \in SessionIds : timers[sid] = "done" => timers'[sid] = "done"]_vars

\* A timer counted down to 0 and left its loop: the dict is completed by the timer.
C39_Witness ==
    \E sid \in hist.time_up :
        /\ timers[sid] = "done"
        /\ Val(quiz_sessions[sid].dict).time_remaining = 0
        /\ Val(quiz_sessions[sid].dict).status = "completed"

\* The settle runs started so far: those that ended and those under way (a task
\* asleep is still inside its delay window).
RunsStarted == hist.settle_runs + Cardinality({n \in DOMAIN tasks : tasks[n].pc # "sleep"})

\* The ranks stored on the entries a run loaded.
RanksOf(order) == {entries[order[i]].rank : i \in DOMAIN order}

\* C40: under fair scheduling and without storage failures every completion is
\* followed by a settle run (the c-th completion by the c-th run), a task is created
\* asleep and only a task that was asleep starts a run, and when a run ends the
\* entries it loaded carry the ranks 1..k, each once.
C40_SettleFollowsCompletion ==
    /\ \A c \in 1..MaxSid : (Stamps >= c) ~> (RunsStarted >= c)
    /\ [][/\ Len(tasks') > Len(tasks) => tasks'[Len(tasks')].pc = "sleep"
          /\ RunsStarted' > RunsStarted => \E n \in DOMAIN tasks : TaskLoad(n)]_vars
    /\ [][\A n \in DOMAIN tasks :
             TaskFinish(n) =>
                 /\ \A i \in DOMAIN tasks[n].order : ~IsNone(entries[tasks[n].order[i]].rank)
                 /\ RanksOf(tasks[n].order) = {Some(r) : r \in 1..Len(tasks[n].order)}]_vars

\* Two runs have ended after two completions, and both entries carry a rank.
C40_Witness ==
    /\ hist.settle_runs = 2
    /\ Stamps = 2
    /\ \A i \in DOMAIN entries : ~IsNone(entries[i].rank)

====
